---- MODULE Spec2Model ----
(***************************************************************************)
(* Model of the Markdown preview parser of MarkdownMobileApp               *)
(* (src/app/_layout.tsx, MarkdownPreview): the block pass parseMarkdown    *)
(* and the inline pass parseInlineElements.                                *)
(*                                                                         *)
(* A text is a sequence of one-character strings. Indices named as in the  *)
(* code (index, length, i, lastIndex) are 0-based like the code's; the     *)
(* TLA+ sequences underneath are 1-based, so the character at code index k *)
(* is t[k + 1].                                                            *)
(***************************************************************************)
EXTENDS Integers, Sequences, FiniteSets, TLC

VARIABLES
    pc,          \* position of the call: "start", "loop", "done"
    content,     \* the text handed to the call
    lines,       \* parseMarkdown: text.split("\n")
    i,           \* parseMarkdown: the line index of the while loop
    elements,    \* the elements pushed so far (blocks, or spans of an inline call)
    allMatches,  \* parseInlineElements: the collected candidates, sorted by index
    filteredMatches \* parseInlineElements: the candidates that survive the overlap filter

\* the variables of a call of the parser
parserVars == <<pc, content, lines, i, elements, allMatches, filteredMatches>>

\* no call of the parser is going on
ParserIdle ==
    /\ pc = "idle"
    /\ content = <<>>
    /\ lines = <<>>
    /\ i = 0
    /\ elements = <<>>
    /\ allMatches = <<>>
    /\ filteredMatches = <<>>

\* lastIndex of a regex object that was just created, or whose exec loop ended
\* with null
FreshLastIndex == [type \in {"image", "link", "bold", "italic", "code"} |-> 0]

VARIABLES
    regexLastIndex, \* parseInlineElements: lastIndex of each of its five regex objects
    returned \* repeated calls: the text and the result of each call that returned

\* the variables of a series of calls of the parser
callVars == <<regexLastIndex, returned>>

\* a series of calls of the parser: nothing has happened
CallsIdle ==
    /\ regexLastIndex = FreshLastIndex
    /\ returned = <<>>

VARIABLES
    platformOS, \* Platform.OS: "web" or "native"
    session, \* the server knows the session of this client
    sessionToken, \* the stored session token, or "null"
    userInfo, \* the stored (cached) user info, or "null"
    user, \* useAuth: the user state, or "null"
    loading, \* useAuth: the loading state
    authError, \* useAuth: the error state, or "null"
    fetchPc, \* position of the fetchUser call in flight, or "idle"
    logoutPc, \* position of the logout call in flight, or "idle"
    logoutApi \* how Api.logout() of the last logout call ended: "none", "ok", "failed"

\* the variables of the useAuth hook
authVars == <<platformOS, session, sessionToken, userInfo, user, loading, authError, fetchPc, logoutPc, logoutApi>>

\* the useAuth hook: nothing has happened
AuthIdle ==
    /\ platformOS = "web"
    /\ session = FALSE
    /\ sessionToken = "null"
    /\ userInfo = "null"
    /\ user = "null"
    /\ loading = TRUE
    /\ authError = "null"
    /\ fetchPc = "idle"
    /\ logoutPc = "idle"
    /\ logoutApi = "none"

VARIABLES
    shareSupport, \* the browser: "none" without navigator.share, "text" with it, "files" if canShare accepts files
    downloading, \* useMarkdownDownloadWeb: the downloading state
    shareError, \* useMarkdownDownloadWeb: the error state, or "null"
    sharePc, \* position of the handleDownload call in flight, or "idle"
    shareCall, \* format and method of the last handleDownload call, or <<>>
    cancelled, \* the user dismissed a share dialog of the last call
    saved, \* downloadFile of the last call made the browser save the file
    alert \* the alert the last handleDownload call showed: "none", "success", "error"

\* the variables of the download hook of the web build
shareVars == <<shareSupport, downloading, shareError, sharePc, shareCall, cancelled, saved, alert>>

\* the download hook of the web build: nothing has happened
ShareIdle ==
    /\ shareSupport = "none"
    /\ downloading = FALSE
    /\ shareError = "null"
    /\ sharePc = "idle"
    /\ shareCall = <<>>
    /\ cancelled = FALSE
    /\ saved = FALSE
    /\ alert = "none"

VARIABLES
    backend, \* the hook in use: "web" (IndexedDB), "native" (file system and AsyncStorage), "universal" (AsyncStorage)
    now, \* the reading of Date.now()
    stored, \* the stored files: the object store in key order, or the list under STORAGE_KEY
    files, \* the files state of the hook
    ops, \* the operations in flight, each at its await; for IndexedDB in the order of their transactions
    called \* the operations called so far

\* the variables of the file-management hooks
filesVars == <<backend, now, stored, files, ops, called>>

\* the file-management hooks: nothing has happened
FilesIdle ==
    /\ backend = "web"
    /\ now = 0
    /\ stored = <<>>
    /\ files = <<>>
    /\ ops = <<>>
    /\ called = <<>>

VARIABLES
    hookFile, \* the file object in the files state of the hook, or <<>> before the list is loaded
    edFile, \* EditorScreen: the file state, or <<>> for null
    edContent, \* EditorScreen: the content state
    typed, \* the text the user typed last, or "none"
    timer, \* the content the pending autosave timer holds, or "none"
    saving, \* the contents of the updateFileContent calls in flight, oldest first
    writes \* the number of updateFileContent calls the editor made

\* the variables of the editor screen
editorVars == <<hookFile, edFile, edContent, typed, timer, saving, writes>>

\* the editor screen: nothing has happened
EditorIdle ==
    /\ hookFile = <<>>
    /\ edFile = <<>>
    /\ edContent = ""
    /\ typed = "none"
    /\ timer = "none"
    /\ saving = <<>>
    /\ writes = 0

\* everything outside a call of the parser
outsideParser == <<callVars, authVars, shareVars, filesVars, editorVars>>

\* the state of everything outside a call of the parser
OutsideParserInit ==
    /\ CallsIdle
    /\ AuthIdle
    /\ ShareIdle
    /\ FilesIdle
    /\ EditorIdle

\* everything outside a series of calls of the parser
outsideCalls == <<authVars, shareVars, filesVars, editorVars>>

\* the state of everything outside a series of calls of the parser
OutsideCallsInit ==
    /\ AuthIdle
    /\ ShareIdle
    /\ FilesIdle
    /\ EditorIdle

\* everything outside the useAuth hook
outsideAuth == <<parserVars, callVars, shareVars, filesVars, editorVars>>

\* the state of everything outside the useAuth hook
OutsideAuthInit ==
    /\ ParserIdle
    /\ CallsIdle
    /\ ShareIdle
    /\ FilesIdle
    /\ EditorIdle

\* everything outside the download hook of the web build
outsideShare == <<parserVars, callVars, authVars, filesVars, editorVars>>

\* the state of everything outside the download hook of the web build
OutsideShareInit ==
    /\ ParserIdle
    /\ CallsIdle
    /\ AuthIdle
    /\ FilesIdle
    /\ EditorIdle

\* everything outside the file-management hooks
outsideFiles == <<parserVars, callVars, authVars, shareVars, editorVars>>

\* the state of everything outside the file-management hooks
OutsideFilesInit ==
    /\ ParserIdle
    /\ CallsIdle
    /\ AuthIdle
    /\ ShareIdle
    /\ EditorIdle

\* everything outside the editor screen
outsideEditor == <<parserVars, callVars, authVars, shareVars, filesVars>>

\* the state of everything outside the editor screen
OutsideEditorInit ==
    /\ ParserIdle
    /\ CallsIdle
    /\ AuthIdle
    /\ ShareIdle
    /\ FilesIdle

vars == <<parserVars, callVars, authVars, shareVars, filesVars, editorVars>>

----------------------------------------------------------------------------
(* Bounds of the model *)

\* longest text over EmphAlphabet given to the inline pass
MaxEmphLen == 7
\* most pieces of LinkPieces concatenated into a text given to the inline pass
MaxLinkPieces == 4
\* most lines of a text made of RichLines given to the block pass
MaxRichLines == 1
\* most lines of a text made of FlowLines given to the block pass
MaxLines == 4
MaxRunLines == 3
\* most pieces of DelimPieces concatenated into a text given to the inline pass
MaxDelims == 7

----------------------------------------------------------------------------
(* Strings *)

Min(S) == CHOOSE x \in S : \A y \in S : x <= y

\* JavaScript's white space (\s, String.prototype.trim), as far as the inputs go
WhiteSpace == {" ", "\t", "\n"}

\* the characters the regular expressions' "." does not match
LineTerminators == {"\n", "\r"}

\* the backtick character, by name: the characters of a text are only compared,
\* and a TLA+ string cannot hold a backtick
Backtick == "BACKTICK"

Digits == {"0", "1", "2", "3", "4", "5", "6", "7", "8", "9"}

\* t.substring(a, b) with 0 <= a <= b <= t.length
Substring(t, a, b) == SubSeq(t, a + 1, b)

\* t.startsWith(p)
StartsWith(t, p) == Len(t) >= Len(p) /\ SubSeq(t, 1, Len(p)) = p

\* t.includes(c) for a single character c
Includes(t, c) == \E k \in 1..Len(t) : t[k] = c

\* the first 1-based position k >= s with t[k] \in C, or 0
FirstAt(t, s, C) ==
    LET S == {k \in s..Len(t) : t[k] \in C}
    IN  IF S = {} THEN 0 ELSE Min(S)

\* t.trim()
Trim(t) ==
    LET S == {k \in 1..Len(t) : t[k] \notin WhiteSpace}
    IN  IF S = {} THEN <<>>
        ELSE SubSeq(t, Min(S), CHOOSE x \in S : \A y \in S : y <= x)

RECURSIVE Concat(_)
\* the concatenation of a sequence of sequences
Concat(ss) == IF ss = <<>> THEN <<>> ELSE Head(ss) \o Concat(Tail(ss))

RECURSIVE Join(_, _)
\* parts.join(sep)
Join(parts, sep) ==
    IF parts = <<>> THEN <<>>
    ELSE IF Len(parts) = 1 THEN parts[1]
    ELSE parts[1] \o sep \o Join(Tail(parts), sep)

RECURSIVE Split(_, _)
\* Split with the bug of giving no part for an empty text
SplitNoEmpty(t, c) ==
    LET k == FirstAt(t, 1, {c})
    IN  IF t = <<>> THEN <<>>
        ELSE IF k = 0 THEN <<t>>
        ELSE <<SubSeq(t, 1, k - 1)>> \o Split(SubSeq(t, k + 1, Len(t)), c)

\* t.split(c) for a single character c: always at least one part
Split(t, c) ==
    LET k == FirstAt(t, 1, {c})
    IN  IF k = 0 THEN <<t>>
        ELSE <<SubSeq(t, 1, k - 1)>> \o Split(SubSeq(t, k + 1, Len(t)), c)

----------------------------------------------------------------------------
(* The inline pass: the regular expressions of parseInlineElements.        *)
(* XEndAt(t, p) is the 1-based position of the last character of the match *)
(* of the expression that starts at 1-based position p, or 0 if the        *)
(* expression does not match there.                                        *)

\* "](" + one or more non-")" + ")" with the "]" at position q: the closing ")" or 0
UrlEndAt(t, q) ==
    IF q = 0 \/ q + 1 > Len(t) \/ t[q + 1] # "("
    THEN 0
    ELSE LET r == FirstAt(t, q + 2, {")"})
         IN  IF r >= q + 3 THEN r ELSE 0

\* imageRegex: "![", any number of non-"]", "](", one or more non-")", ")"
ImageEndAt(t, p) ==
    IF p + 1 > Len(t) \/ t[p] # "!" \/ t[p + 1] # "["
    THEN 0
    ELSE UrlEndAt(t, FirstAt(t, p + 2, {"]"}))

\* linkRegex: "[", one or more non-"]", "](", one or more non-")", ")"
LinkEndAt(t, p) ==
    IF t[p] # "["
    THEN 0
    ELSE LET q == FirstAt(t, p + 1, {"]"})
         IN  IF q >= p + 2 THEN UrlEndAt(t, q) ELSE 0

\* codeRegex: a backtick, one or more non-backticks, a backtick
CodeEndAt(t, p) ==
    IF t[p] # Backtick
    THEN 0
    ELSE LET q == FirstAt(t, p + 1, {Backtick})
         IN  IF q >= p + 2 THEN q ELSE 0

\* BoldEndAt with the bug of taking the end of the text as the closing delimiter
\* when there is none
BoldEndAtUnclosed(t, p) ==
    IF p + 2 > Len(t) \/ t[p] \notin {"*", "_"} \/ t[p + 1] # t[p]
    THEN 0
    ELSE LET S == {q \in (p + 3)..(Len(t) - 1) : t[q] = t[p] /\ t[q + 1] = t[p]}
         IN  IF S = {} THEN Len(t) ELSE Min(S) + 1

\* boldRegex, two stars or two underscores, a lazy body of one or more ".", the
\* same delimiter again: the lazy body takes the nearest closing delimiter that
\* leaves at least one character, and "." stops at a line terminator
BoldEndAt(t, p) ==
    IF p + 1 > Len(t) \/ t[p] \notin {"*", "_"} \/ t[p + 1] # t[p]
    THEN 0
    ELSE LET S == {q \in (p + 3)..(Len(t) - 1) :
                      /\ t[q] = t[p]
                      /\ t[q + 1] = t[p]
                      /\ \A k \in (p + 2)..(q - 1) : t[k] \notin LineTerminators}
         IN  IF S = {} THEN 0 ELSE Min(S) + 1

\* italicRegex, a star (or underscore) not preceded by one, a lazy body of one or
\* more characters other than the delimiter and "\n", the delimiter again, not
\* followed by one: the body holds no delimiter, so the only closing candidate
\* is the next delimiter character
ItalicEndAt(t, p) ==
    IF t[p] \notin {"*", "_"} \/ (p > 1 /\ t[p - 1] = t[p])
    THEN 0
    ELSE LET q == FirstAt(t, p + 1, {t[p]})
         IN  IF /\ q >= p + 2
                /\ \A k \in (p + 1)..(q - 1) : t[k] # "\n"
                /\ (q = Len(t) \/ t[q + 1] # t[p])
             THEN q ELSE 0

EndAt(type, t, p) ==
    CASE type = "image"  -> ImageEndAt(t, p)
      [] type = "link"   -> LinkEndAt(t, p)
      [] type = "code"   -> CodeEndAt(t, p)
      [] type = "bold"   -> BoldEndAt(t, p)
      [] type = "italic" -> ItalicEndAt(t, p)

\* MatchData with the bug of stripping one delimiter character of a bold match
\* instead of two
MatchDataBoldOne(type, t, p, e) ==
    CASE type = "image"  ->
            LET q == FirstAt(t, p + 2, {"]"})
            IN  [alt |-> SubSeq(t, p + 2, q - 1), url |-> SubSeq(t, q + 2, e - 1)]
      [] type = "link"   ->
            LET q == FirstAt(t, p + 1, {"]"})
            IN  [text |-> SubSeq(t, p + 1, q - 1), url |-> SubSeq(t, q + 2, e - 1)]
      [] type = "code"   -> [code |-> SubSeq(t, p + 1, e - 1)]
      [] type = "bold"   -> [text |-> SubSeq(t, p + 1, e - 1)]
      [] type = "italic" -> [text |-> SubSeq(t, p + 1, e - 1)]

\* the data of a match of the given type over the 1-based positions p..e
MatchData(type, t, p, e) ==
    CASE type = "image"  ->
            LET q == FirstAt(t, p + 2, {"]"})
            IN  [alt |-> SubSeq(t, p + 2, q - 1), url |-> SubSeq(t, q + 2, e - 1)]
      [] type = "link"   ->
            LET q == FirstAt(t, p + 1, {"]"})
            IN  [text |-> SubSeq(t, p + 1, q - 1), url |-> SubSeq(t, q + 2, e - 1)]
      [] type = "code"   -> [code |-> SubSeq(t, p + 1, e - 1)]
      [] type = "bold"   -> [text |-> SubSeq(t, p + 2, e - 2)]
      [] type = "italic" -> [text |-> SubSeq(t, p + 1, e - 1)]

RECURSIVE ExecAll(_, _, _)
\* while ((m = regex.exec(text)) !== null) with a /g expression: the matches
\* found from 1-based position p on, each search resuming after the last match
ExecAll(type, t, p) ==
    IF p > Len(t) THEN <<>>
    ELSE LET e == EndAt(type, t, p)
         IN  IF e = 0 THEN ExecAll(type, t, p + 1)
             ELSE <<[type |-> type, index |-> p - 1, length |-> e - p + 1,
                     data |-> MatchData(type, t, p, e)]>>
                  \o ExecAll(type, t, e + 1)

\* NonItalicMatches with the bug of pushing every link match, the ones whose "["
\* follows a "!" included
NonItalicMatchesAllLinks(t) ==
    ExecAll("image", t, 1) \o ExecAll("link", t, 1) \o ExecAll("code", t, 1)
        \o ExecAll("bold", t, 1)

\* the images, then the links whose "[" does not follow a "!", then the inline
\* codes, then the bolds, in the order they are pushed
NonItalicMatches(t) ==
    LET notImage(m) == ~(m.index > 0 /\ t[m.index] = "!")
    IN  ExecAll("image", t, 1)
        \o SelectSeq(ExecAll("link", t, 1), notImage)
        \o ExecAll("code", t, 1)
        \o ExecAll("bold", t, 1)

\* IsPartOfOther with the bug of looking at the bold matches only
IsPartOfOtherBoldOnly(ms, index) ==
    \E k \in 1..Len(ms) :
        /\ ms[k].type = "bold"
        /\ index >= ms[k].index /\ index < ms[k].index + ms[k].length

\* allMatches.some(m => index >= m.index && index < m.index + m.length)
IsPartOfOther(ms, index) ==
    \E k \in 1..Len(ms) : index >= ms[k].index /\ index < ms[k].index + ms[k].length

RECURSIVE PushItalics(_, _)
\* the italic loop: a candidate is pushed unless its start lies inside a match
\* already in allMatches (the italics pushed before it included)
PushItalics(ms, its) ==
    IF its = <<>> THEN ms
    ELSE PushItalics(IF IsPartOfOther(ms, Head(its).index) THEN ms
                     ELSE Append(ms, Head(its)),
                     Tail(its))

\* allMatches before the sort, in registration order
CollectMatches(t) == PushItalics(NonItalicMatches(t), ExecAll("italic", t, 1))

RECURSIVE SortByIndex(_)
\* ms.sort((a, b) => a.index - b.index): Array.prototype.sort is stable, so
\* matches with the same index keep their order
SortByIndex(ms) ==
    IF ms = <<>> THEN <<>>
    ELSE LET k == CHOOSE k \in 1..Len(ms) :
                     /\ \A j \in 1..Len(ms) : ms[k].index <= ms[j].index
                     /\ \A j \in 1..(k - 1) : ms[j].index > ms[k].index
         IN  <<ms[k]>> \o SortByIndex(SubSeq(ms, 1, k - 1) \o SubSeq(ms, k + 1, Len(ms)))

\* the overlap test of the filter loop
Overlaps(current, existing) ==
    \/ current.index >= existing.index /\ current.index < existing.index + existing.length
    \/ existing.index >= current.index /\ existing.index < current.index + current.length

\* FilterOne with the bug of never finding an overlap
FilterOneKeepAll(filtered, current) == Append(filtered, current)

\* one iteration of the outer filter loop: the first overlapping entry of
\* filteredMatches decides; current replaces it if strictly longer, is dropped
\* otherwise, and is pushed if nothing overlaps
FilterOne(filtered, current) ==
    LET S == {j \in 1..Len(filtered) : Overlaps(current, filtered[j])}
    IN  IF S = {} THEN Append(filtered, current)
        ELSE IF current.length > filtered[Min(S)].length
             THEN [filtered EXCEPT ![Min(S)] = current]
             ELSE filtered

RECURSIVE FilterLoop(_, _)
FilterLoop(filtered, ms) ==
    IF ms = <<>> THEN filtered
    ELSE FilterLoop(FilterOne(filtered, Head(ms)), Tail(ms))

\* filteredMatches after its final sort
FilterMatches(ms) == SortByIndex(FilterLoop(<<>>, ms))

\* the text an element shows: the inner text of a match, the alt of an image
DisplayText(m) ==
    CASE m.type = "image" -> m.data.alt
      [] m.type = "link"  -> m.data.text
      [] m.type = "code"  -> m.data.code
      [] OTHER            -> m.data.text

\* the element pushed for a match; from/to record the code indices it stands for
MatchElement(m) ==
    [kind |-> m.type, text |-> DisplayText(m),
     url |-> IF m.type \in {"image", "link"} THEN m.data.url ELSE <<>>,
     from |-> m.index, to |-> m.index + m.length]

\* a plain string element, text.substring(a, b)
TextElement(t, a, b) ==
    [kind |-> "text", text |-> Substring(t, a, b), url |-> <<>>, from |-> a, to |-> b]

RECURSIVE EmitLoop(_, _, _)
\* filteredMatches.forEach: the text before the match if any, then the match
EmitLoop(t, ms, lastIndex) ==
    IF ms = <<>>
    THEN IF lastIndex < Len(t) THEN <<TextElement(t, lastIndex, Len(t))>> ELSE <<>>
    ELSE LET m == Head(ms)
         IN  (IF m.index > lastIndex THEN <<TextElement(t, lastIndex, m.index)>> ELSE <<>>)
             \o <<MatchElement(m)>>
             \o EmitLoop(t, Tail(ms), m.index + m.length)

\* the elements parseInlineElements returns for the surviving matches
EmitElements(t, ms) ==
    LET es == EmitLoop(t, ms, 0)
    IN  IF es # <<>> THEN es ELSE <<TextElement(t, 0, Len(t))>>

\* parseInlineElements(text): [text] at once for the empty text
ParseInlineElements(t) ==
    IF t = <<>> THEN <<TextElement(t, 0, 0)>>
    ELSE EmitElements(t, FilterMatches(SortByIndex(CollectMatches(t))))

----------------------------------------------------------------------------
(* The block pass: the tests parseMarkdown makes on a line. line is lines[i], *)
(* tl is line.trim().                                                         *)

\* the longest run from 1-based position s that "." matches: the rest of t up to
\* a line terminator
DotStar(t, s) ==
    LET e == FirstAt(t, s, LineTerminators)
    IN  IF e = 0 THEN SubSeq(t, s, Len(t)) ELSE SubSeq(t, s, e - 1)

\* the first 1-based position k >= s with t[k] \notin C, or Len(t) + 1
SkipAll(t, s, C) ==
    LET S == {k \in s..Len(t) : t[k] \notin C}
    IN  IF S = {} THEN Len(t) + 1 ELSE Min(S)

\* the horizontal rule test: three or more characters, each "-", "*" or "_"
IsHorizontalRule(tl) ==
    Len(tl) >= 3 /\ \A k \in 1..Len(tl) : tl[k] \in {"-", "*", "_"}

\* trimmedLine.startsWith("> ")
IsQuoteLine(tl) == StartsWith(tl, <<">", " ">>)

\* IsTableHeader with the test on the cells that are left after the trim and
\* the filter in place of the test on the parts of the split
IsTableHeaderCells(tl) ==
    LET parts == Split(tl, "|")
        nonEmpty(c) == Trim(c) # <<>>
    IN  Includes(tl, "|") /\ Len(SelectSeq(parts, nonEmpty)) >= 3

\* trimmedLine.includes("|") && trimmedLine.split("|").length >= 3
IsTableHeader(tl) == Includes(tl, "|") /\ Len(Split(tl, "|")) >= 3

\* .split("|").map(cell => cell.trim()).filter(cell => cell)
Cells(t) ==
    LET parts == Split(t, "|")
        trimmed == [k \in 1..Len(parts) |-> Trim(parts[k])]
        nonEmpty(c) == c # <<>>
    IN  SelectSeq(trimmed, nonEmpty)

\* IsSeparatorLine with the bug of taking the empty trimmed line as well
IsSeparatorLineOrBlank(tl) ==
    \A k \in 1..Len(tl) : tl[k] \in WhiteSpace \cup {"|", ":", "-"}

\* the separator test on lines[i].trim(): one or more of white space, "|", ":", "-"
IsSeparatorLine(tl) ==
    Len(tl) >= 1 /\ \A k \in 1..Len(tl) : tl[k] \in WhiteSpace \cup {"|", ":", "-"}

\* 3, 2 or 1 for a line that starts with "### ", "## " or "# ", tested in that
\* order on the untrimmed line; 0 for any other line
HeadingLevel(line) ==
    IF StartsWith(line, <<"#", "#", "#", " ">>) THEN 3
    ELSE IF StartsWith(line, <<"#", "#", " ">>) THEN 2
    ELSE IF StartsWith(line, <<"#", " ">>) THEN 1
    ELSE 0

\* the checkbox test, "-", white space, "[", " " or "x", "]": the 1-based position
\* of the "]" or 0
CheckboxEnd(tl) ==
    LET w == SkipAll(tl, 2, WhiteSpace)
    IN  IF /\ Len(tl) >= 1 /\ tl[1] = "-"
           /\ w >= 3 /\ w + 2 <= Len(tl)
           /\ tl[w] = "[" /\ tl[w + 1] \in {" ", "x"} /\ tl[w + 2] = "]"
        THEN w + 2 ELSE 0

\* the ordered list test, digits, ".", a white space: the 1-based position of the
\* "." or 0
OrderedDot(tl) ==
    LET d == SkipAll(tl, 1, Digits)
    IN  IF d >= 2 /\ d + 1 <= Len(tl) /\ tl[d] = "." /\ tl[d + 1] \in WhiteSpace
        THEN d ELSE 0

\* trimmedLine.startsWith("- ") || trimmedLine.startsWith("* ")
IsListLine(tl) == StartsWith(tl, <<"-", " ">>) \/ StartsWith(tl, <<"*", " ">>)

\* line.startsWith of three backticks
IsFenceLine(line) == StartsWith(line, <<Backtick, Backtick, Backtick>>)

\* RuleOf with the bug of testing the list marker before the checkbox
RuleOfListFirst(line) ==
    LET tl == Trim(line)
    IN  IF IsHorizontalRule(tl) THEN "hr"
        ELSE IF IsQuoteLine(tl) THEN "quote"
        ELSE IF IsTableHeader(tl) THEN "table"
        ELSE IF HeadingLevel(line) > 0 THEN "heading"
        ELSE IF IsListLine(tl) THEN "list"
        ELSE IF CheckboxEnd(tl) > 0 THEN "checkbox"
        ELSE IF OrderedDot(tl) > 0 THEN "ordered-list"
        ELSE IF IsFenceLine(line) THEN "code"
        ELSE IF tl = <<>> THEN "space"
        ELSE "text"

\* the branch of the if / else-if chain the line takes
RuleOf(line) ==
    LET tl == Trim(line)
    IN  IF IsHorizontalRule(tl) THEN "hr"
        ELSE IF IsQuoteLine(tl) THEN "quote"
        ELSE IF IsTableHeader(tl) THEN "table"
        ELSE IF HeadingLevel(line) > 0 THEN "heading"
        ELSE IF CheckboxEnd(tl) > 0 THEN "checkbox"
        ELSE IF OrderedDot(tl) > 0 THEN "ordered-list"
        ELSE IF IsListLine(tl) THEN "list"
        ELSE IF IsFenceLine(line) THEN "code"
        ELSE IF tl = <<>> THEN "space"
        ELSE "text"

\* an element pushed by parseMarkdown: its kind, the line index it was opened at
\* (first), the line index the loop goes on with (next), the lines the iteration
\* read to make it (rawLines), the text it shows, the inline elements of that
\* text (none where the code shows the text as it is), and what else the kind
\* carries
Element(kind, first, next, rawLines, text, spans, info) ==
    [kind |-> kind, first |-> first, next |-> next, rawLines |-> rawLines,
     text |-> text, spans |-> spans, info |-> info]

\* the number of lines an inner while loop takes from code index k on: up to the
\* first line index in stop, or to the end of the lines
RunLength(ls, k, stop) ==
    LET S == {j \in stop : j >= k}
    IN  (IF S = {} THEN Len(ls) ELSE Min(S)) - k

\* the code indices of the lines that end a blockquote, a table and a code block
QuoteStops(ls) == {j \in 0..(Len(ls) - 1) : ~IsQuoteLine(Trim(ls[j + 1]))}
RowStops(ls) == {j \in 0..(Len(ls) - 1) : ~Includes(Trim(ls[j + 1]), "|")}
FenceStops(ls) == {j \in 0..(Len(ls) - 1) : IsFenceLine(ls[j + 1])}

----------------------------------------------------------------------------
(* Inputs of the inline pass *)

EmphAlphabet == {"*", "_", Backtick, "a"}

\* every text of at most MaxEmphLen characters of EmphAlphabet
EmphTexts == UNION {[1..n -> EmphAlphabet] : n \in 0..MaxEmphLen}

LinkPieces ==
    {<<"!">>, <<"[", "a", "]", "(", "u", ")">>, <<"[", "a", "]">>, <<"(", "u", ")">>,
     <<"*">>, <<"a">>, <<"~", "~">>, <<"\n">>, <<"[">>}

\* every concatenation of at most MaxLinkPieces pieces of LinkPieces
LinkTexts == {Concat(ps) : ps \in UNION {[1..n -> LinkPieces] : n \in 0..MaxLinkPieces}}

\* the delimiters of the emphasis families, "*", a backtick and "__"
DelimPieces == {<<"*">>, <<Backtick>>, <<"_", "_">>}

\* every concatenation of at most MaxDelims pieces of DelimPieces
DelimTexts == {Concat(ps) : ps \in UNION {[1..n -> DelimPieces] : n \in 0..MaxDelims}}

InlineTexts == EmphTexts \cup LinkTexts \cup DelimTexts

----------------------------------------------------------------------------
(* A call of parseInlineElements(content) *)

InitInline ==
    /\ pc = "start"
    /\ content \in InlineTexts
    /\ lines = <<>>
    /\ i = 0
    /\ elements = <<>>
    /\ allMatches = <<>>
    /\ filteredMatches = <<>>
    /\ OutsideParserInit

ParseInline ==
    /\ pc = "start"
    /\ pc' = "done"
    /\ allMatches' = IF content = <<>> THEN <<>> ELSE SortByIndex(CollectMatches(content))
    /\ filteredMatches' = FilterMatches(allMatches')
    /\ elements' = IF content = <<>> THEN <<TextElement(content, 0, 0)>>
                   ELSE EmitElements(content, filteredMatches')
    /\ UNCHANGED <<content, lines, i, outsideParser>>

NextInline == ParseInline

SpecInline == InitInline /\ [][NextInline]_vars

----------------------------------------------------------------------------
(* Inputs of the block pass *)

LinePrefixes ==
    {<<>>, <<" ">>,
     <<"#", " ">>, <<"#", "#", " ">>, <<"#", "#", "#", " ">>, <<"#", "#", "#", "#", " ">>,
     <<"-", " ">>, <<"*", " ">>, <<" ", "-", " ">>,
     <<"-", " ", "[", "x", "]", " ">>, <<"-", " ", "[", " ", "]", " ">>,
     <<"1", ".", " ">>, <<">", " ">>,
     <<Backtick, Backtick, Backtick>>,
     <<"-", "-", "-">>, <<"*", "*", "*">>, <<"_", "_", "_">>, <<"-", "*", "_">>, <<"-", "-">>}

LineBodies ==
    {<<>>, <<"a">>, <<"*", "a", "*">>, <<"a", "|", "b">>, <<"|", "a", "|">>,
     <<"|", "a", "|", "b", "|">>, <<"a", "|", "b", "|", "a">>}

\* the lines a one-line rule is tried on: every prefix before every body
RichLines == {p \o b : p \in LinePrefixes, b \in LineBodies}

\* the lines the multi-line constructs are made of
FlowLines ==
    {<<>>, <<"a">>, <<"|", "a", "|", "b", "|">>, <<"|", "-", "|", "-", "|">>,
     <<"a", "|">>, <<Backtick, Backtick, Backtick>>}

\* the lines that runs of table rows, of checklist items, of quoted lines and of
\* fenced lines are made of, with the white space a line may have around its
\* cells and before it
RunLines ==
    {<<" ">>,
     <<"|", " ", "a", " ", "|", " ", "b", " ", "|">>,
     <<"|", "-", "-", "-", "|", "-", "-", "-", "|">>,
     <<"|", " ", "1", " ", "|", " ", "2", " ", "|">>,
     <<"-", " ", "[", " ", "]", " ", "a">>,
     <<"-", " ", "[", "x", "]", " ", "b">>,
     <<">", " ", "a">>,
     <<" ", ">", " ", "*", "b", "*">>,
     <<Backtick, Backtick, Backtick>>,
     <<"|", "*", "a", "*", "|">>}

\* the texts of 1 to n lines of L, joined with "\n"
TextsOf(L, n) == {Join(ls, <<"\n">>) : ls \in UNION {[1..k -> L] : k \in 1..n}}

BlockTexts ==
    TextsOf(RichLines, MaxRichLines) \cup TextsOf(FlowLines, MaxLines)
        \cup TextsOf(RunLines, MaxRunLines)

----------------------------------------------------------------------------
(* A call of parseMarkdown(content) *)

Init ==
    /\ pc = "start"
    /\ content \in BlockTexts
    /\ lines = <<>>
    /\ i = 0
    /\ elements = <<>>
    /\ allMatches = <<>>
    /\ filteredMatches = <<>>
    /\ OutsideParserInit

\* const lines = text.split("\n"); const elements = []; let i = 0;
StartParse ==
    /\ pc = "start"
    /\ pc' = "loop"
    /\ lines' = Split(content, "\n")
    /\ i' = 0
    /\ elements' = <<>>
    /\ UNCHANGED <<content, allMatches, filteredMatches, outsideParser>>

\* the loop is at a line that takes the given branch
AtRule(rule) == pc = "loop" /\ i < Len(lines) /\ RuleOf(lines[i + 1]) = rule

\* what an iteration leaves: the element pushed and the next line index
Push(e) ==
    /\ elements' = Append(elements, e)
    /\ i' = e.next
    /\ UNCHANGED <<pc, content, lines, allMatches, filteredMatches, outsideParser>>

HorizontalRule ==
    /\ AtRule("hr")
    /\ Push(Element("hr", i, i + 1, <<lines[i + 1]>>, <<>>, <<>>, <<>>))

\* Blockquote with the bug of leaving out the i++ that follows the i--
BlockquoteNoAdvance ==
    /\ AtRule("quote")
    /\ LET n == RunLength(lines, i, QuoteStops(lines))
           quoteLines == [k \in 1..n |-> Substring(Trim(lines[i + k]), 2, Len(Trim(lines[i + k])))]
           text == Join(quoteLines, <<"\n">>)
       IN  Push(Element("quote", i, i + n - 1, SubSeq(lines, i + 1, i + n), text, ParseInlineElements(text), <<>>))

\* Blockquote with the bug of cutting the prefix off the line as it is, not off
\* the trimmed line
BlockquoteUntrimmed ==
    /\ AtRule("quote")
    /\ LET n == RunLength(lines, i, QuoteStops(lines))
           quoteLines == [k \in 1..n |-> Substring(lines[i + k], 2, Len(lines[i + k]))]
           text == Join(quoteLines, <<"\n">>)
       IN  Push(Element("quote", i, i + n, SubSeq(lines, i + 1, i + n), text, ParseInlineElements(text), <<>>))

Blockquote ==
    /\ AtRule("quote")
    /\ LET n == RunLength(lines, i, QuoteStops(lines))
           quoteLines == [k \in 1..n |-> Substring(Trim(lines[i + k]), 2, Len(Trim(lines[i + k])))]
           text == Join(quoteLines, <<"\n">>)
       IN  Push(Element("quote", i, i + n, SubSeq(lines, i + 1, i + n), text, ParseInlineElements(text), <<>>))

\* Table with the bug of leaving out the i-- before the final i++
TableNoStepBack ==
    /\ AtRule("table")
    /\ LET r == IF i + 1 < Len(lines) /\ IsSeparatorLine(Trim(lines[i + 2]))
                THEN i + 2 ELSE i + 1
           n == RunLength(lines, r, RowStops(lines))
       IN  Push(Element("table", i, r + n + 1, SubSeq(lines, i + 1, r + n), <<>>, <<>>,
                        [headerRow |-> Cells(Trim(lines[i + 1])), tableRows |-> <<>>]))

Table ==
    /\ AtRule("table")
    /\ LET headerRow == Cells(Trim(lines[i + 1]))
           \* the line index after the header and the separator line, if there is one
           r == IF i + 1 < Len(lines) /\ IsSeparatorLine(Trim(lines[i + 2]))
                THEN i + 2 ELSE i + 1
           n == RunLength(lines, r, RowStops(lines))
           rows == [k \in 1..n |-> Cells(lines[r + k])]
           nonEmpty(row) == row # <<>>
           tableRows == SelectSeq(rows, nonEmpty)
           cellSpans == [k \in 1..Len(tableRows) |->
                           [c \in 1..Len(tableRows[k]) |-> ParseInlineElements(tableRows[k][c])]]
           \* a header cell is shown as the string it is
           headerShown == [c \in 1..Len(headerRow) |->
                             <<TextElement(headerRow[c], 0, Len(headerRow[c]))>>]
       IN  Push(Element("table", i, r + n, SubSeq(lines, i + 1, r + n), <<>>, cellSpans,
                        [headerRow |-> headerRow, tableRows |-> tableRows,
                         headerShown |-> headerShown]))

Heading ==
    /\ AtRule("heading")
    /\ LET level == HeadingLevel(lines[i + 1])
           headingText == Substring(lines[i + 1], level + 1, Len(lines[i + 1]))
       IN  Push(Element("heading", i, i + 1, <<lines[i + 1]>>, headingText, ParseInlineElements(headingText),
                        [level |-> level]))

\* Checkbox with the bug of keeping the white space after the bracket in the text
CheckboxKeepsSpace ==
    /\ AtRule("checkbox")
    /\ LET tl == Trim(lines[i + 1])
           e == CheckboxEnd(tl)
           text == DotStar(tl, e + 1)
       IN  Push(Element("checkbox", i, i + 1, <<lines[i + 1]>>, text, ParseInlineElements(text),
                        [isChecked |-> tl[e - 1] = "x"]))

Checkbox ==
    /\ AtRule("checkbox")
    /\ LET tl == Trim(lines[i + 1])
           e == CheckboxEnd(tl)
           text == DotStar(tl, SkipAll(tl, e + 1, WhiteSpace))
       IN  Push(Element("checkbox", i, i + 1, <<lines[i + 1]>>, text, ParseInlineElements(text),
                        [isChecked |-> tl[e - 1] = "x"]))

OrderedList ==
    /\ AtRule("ordered-list")
    /\ LET tl == Trim(lines[i + 1])
           d == OrderedDot(tl)
           text == DotStar(tl, SkipAll(tl, d + 1, WhiteSpace))
       IN  Push(Element("ordered-list", i, i + 1, <<lines[i + 1]>>, text, ParseInlineElements(text),
                        [number |-> SubSeq(tl, 1, d - 1)]))

\* List with the bug of cutting the marker off the line as it is, not off the
\* trimmed line
ListUntrimmed ==
    /\ AtRule("list")
    /\ LET text == Substring(lines[i + 1], 2, Len(lines[i + 1]))
       IN  Push(Element("list", i, i + 1, <<lines[i + 1]>>, text, ParseInlineElements(text), <<>>))

List ==
    /\ AtRule("list")
    /\ LET tl == Trim(lines[i + 1])
           text == Substring(tl, 2, Len(tl))
       IN  Push(Element("list", i, i + 1, <<lines[i + 1]>>, text, ParseInlineElements(text), <<>>))

\* CodeBlock with the bug of leaving the closing fence line to the next iteration
CodeBlockKeepsClosingFence ==
    /\ AtRule("code")
    /\ LET n == RunLength(lines, i + 1, FenceStops(lines))
           codeLines == SubSeq(lines, i + 2, i + 1 + n)
       IN  Push(Element("code", i, i + 1 + n, SubSeq(lines, i + 1, i + 1 + n),
                        Join(codeLines, <<"\n">>), <<>>, <<>>))

\* CodeBlock with the bug of pushing nothing for a fence that is never closed
CodeBlockDropsUnterminated ==
    /\ AtRule("code")
    /\ LET n == RunLength(lines, i + 1, FenceStops(lines))
           codeLines == SubSeq(lines, i + 2, i + 1 + n)
       IN  /\ elements' = IF i + 1 + n >= Len(lines) THEN elements
                          ELSE Append(elements,
                                      Element("code", i, i + 1 + n + 1,
                                              SubSeq(lines, i + 1, i + 1 + n + 1),
                                              Join(codeLines, <<"\n">>), <<>>, <<>>))
           /\ i' = i + 1 + n + 1
           /\ UNCHANGED <<pc, content, lines, allMatches, filteredMatches, outsideParser>>

CodeBlock ==
    /\ AtRule("code")
    /\ LET n == RunLength(lines, i + 1, FenceStops(lines))
           codeLines == SubSeq(lines, i + 2, i + 1 + n)
       IN  \* i stands at the closing fence, or at lines.length, when the final
           \* i++ of the iteration runs
           Push(Element("code", i, i + 1 + n + 1,
                        SubSeq(lines, i + 1, Min({i + 1 + n + 1, Len(lines)})),
                        Join(codeLines, <<"\n">>), <<>>, <<>>))

Space ==
    /\ AtRule("space")
    /\ Push(Element("space", i, i + 1, <<lines[i + 1]>>, <<>>, <<>>, <<>>))

Paragraph ==
    /\ AtRule("text")
    /\ Push(Element("text", i, i + 1, <<lines[i + 1]>>, lines[i + 1], ParseInlineElements(lines[i + 1]), <<>>))

\* the while condition fails: return elements
Return ==
    /\ pc = "loop"
    /\ i >= Len(lines)
    /\ pc' = "done"
    /\ UNCHANGED <<content, lines, i, elements, allMatches, filteredMatches, outsideParser>>

Next ==
    \/ StartParse
    \/ HorizontalRule
    \/ Blockquote
    \/ Table
    \/ Heading
    \/ Checkbox
    \/ OrderedList
    \/ List
    \/ CodeBlock
    \/ Space
    \/ Paragraph
    \/ Return

Spec == Init /\ [][Next]_vars

----------------------------------------------------------------------------
(* Properties *)

\* the line an element was opened at
OpeningLine(e) == lines[e.first + 1]

\* the 1-based positions of the elements of the given kind
OfKind(kind) == {k \in 1..Len(elements) : elements[k].kind = kind}

\* C1: when parseMarkdown returns, the lines its elements were made of, taken
\* in element order, are the lines of text.split("\n"): every element took one
\* line or more, starting at the line index it was opened at, the first element
\* starts at line 0 and each next one right after the lines of the one before,
\* so that every line index lies in exactly one element; joined with "\n" the
\* lines taken are the input text.
C1_BlocksPartitionLines ==
    pc = "done" =>
        LET raw == [k \in 1..Len(elements) |-> elements[k].rawLines]
        IN  /\ Concat(raw) = lines
            /\ Join(Concat(raw), <<"\n">>) = content
            /\ elements[1].first = 0
            /\ \A k \in 1..Len(elements) :
                  /\ Len(raw[k]) >= 1
                  /\ raw[k] = SubSeq(lines, elements[k].first + 1,
                                     elements[k].first + Len(raw[k]))
            /\ \A k \in 1..(Len(elements) - 1) :
                  elements[k + 1].first = elements[k].first + Len(raw[k])
            /\ \A n \in 0..(Len(lines) - 1) :
                  Cardinality({k \in 1..Len(elements) :
                                  /\ elements[k].first <= n
                                  /\ n < elements[k].first + Len(raw[k])}) = 1

\* a returned parse with several elements, one of which took three lines or more
C1_Witness ==
    /\ pc = "done"
    /\ Len(elements) >= 2
    /\ \E k \in OfKind("table") : Len(elements[k].rawLines) >= 3

\* the rule kinds in the order of the claim
RuleOrder ==
    <<"hr", "quote", "table", "heading", "checkbox", "ordered-list", "list", "code",
      "space", "text">>

\* whether the loop can make a step: an iteration at the line it stands at,
\* whatever branch the line takes, or the return
CanStep ==
    \/ pc = "start"
    \/ pc = "loop" /\ i >= Len(lines)
    \/ \E k \in 1..Len(RuleOrder) : AtRule(RuleOrder[k])

\* C2: the call never gets stuck and never runs on for ever: until it has
\* returned a step is always possible, and every iteration pushes one element
\* and moves the line index strictly forward, to lines.length + 1 at most.
C2_ParseTerminates ==
    /\ [](pc # "done" => CanStep)
    /\ [][(pc = "loop" /\ pc' = "loop") =>
            /\ i' > i
            /\ i' <= Len(lines) + 1
            /\ Len(elements') = Len(elements) + 1]_vars

\* a returned parse whose last element is a code fence that ran to the end of
\* the input, after a blockquote or a table
C2_Witness ==
    /\ pc = "done"
    /\ elements # <<>>
    /\ elements[Len(elements)].kind = "code"
    /\ elements[Len(elements)].next = Len(lines) + 1
    /\ OfKind("quote") \cup OfKind("table") # {}

\* C5 as stated: parseMarkdown("") returns no element at all.
C5_EmptyTextNoBlock ==
    (pc = "done" /\ content = <<>>) => elements = <<>>

\* C5 as amended: parseMarkdown("") returns exactly one element, the spacer of a
\* blank line, since "".split("\n") is one empty line.
C5_EmptyTextOneBlank ==
    (pc = "done" /\ content = <<>>) =>
        /\ Len(elements) = 1
        /\ elements[1].kind = "space"
        /\ lines = << <<>> >>

C5_Witness == pc = "done" /\ content = <<>>

\* whether the line satisfies the rule of the given kind, taken on its own
Satisfies(rule, line) ==
    LET tl == Trim(line)
    IN  CASE rule = "hr"           -> IsHorizontalRule(tl)
          [] rule = "quote"        -> IsQuoteLine(tl)
          [] rule = "table"        -> IsTableHeader(tl)
          [] rule = "heading"      -> HeadingLevel(line) > 0
          [] rule = "checkbox"     -> CheckboxEnd(tl) > 0
          [] rule = "ordered-list" -> OrderedDot(tl) > 0
          [] rule = "list"         -> IsListLine(tl)
          [] rule = "code"         -> IsFenceLine(line)
          [] rule = "space"        -> tl = <<>>
          [] rule = "text"         -> tl # <<>>

\* C6: the kind of every element pushed is the kind of the earliest rule, in the
\* order horizontal rule, blockquote, table, heading, checklist item, ordered
\* list item, unordered list item, code fence, blank, paragraph, that the line
\* the element was opened at satisfies.
C6_FirstRuleWins ==
    \A k \in 1..Len(elements) :
        LET line == OpeningLine(elements[k])
            r == Min({n \in 1..Len(RuleOrder) : Satisfies(RuleOrder[n], line)})
        IN  elements[k].kind = RuleOrder[r]

\* a returned parse of a line that satisfies the checklist and the list rule and
\* became a checklist item
C6_Witness ==
    /\ pc = "done"
    /\ \E k \in OfKind("checkbox") : Satisfies("list", OpeningLine(elements[k]))

\* n times "#" and a space
HeadingPrefix(n) == [k \in 1..(n + 1) |-> IF k <= n THEN "#" ELSE " "]

\* C8: a line that starts with "#### ", "### ", "## " or "# ", and that none of
\* the rules before the heading rule takes, gives one heading element of level
\* 4, 3, 2 or 1 with the rest of the line as its text, and takes one line.
C8_HeadingLevels ==
    pc = "done" =>
        \A k \in 1..Len(elements) : \A n \in 1..4 :
            LET e == elements[k]
                line == OpeningLine(e)
            IN  (/\ StartsWith(line, HeadingPrefix(n))
                 /\ ~Satisfies("hr", line) /\ ~Satisfies("quote", line)
                 /\ ~Satisfies("table", line))
                => /\ e.kind = "heading"
                   /\ e.info.level = n
                   /\ e.text = Substring(line, n + 1, Len(line))
                   /\ e.next = e.first + 1

\* whether t is three or more repetitions of one of "-", "*", "_"
IsOneCharRule(t) ==
    Len(t) >= 3 /\ t[1] \in {"-", "*", "_"} /\ \A k \in 1..Len(t) : t[k] = t[1]

\* C10: the element opened at a line is a horizontal rule exactly when the
\* trimmed line is three or more repetitions of one character, "-", "*" or "_",
\* and the rule takes that one line.
C10_HorizontalRule ==
    pc = "done" =>
        \A k \in 1..Len(elements) :
            /\ elements[k].kind = "hr" <=> IsOneCharRule(Trim(OpeningLine(elements[k])))
            /\ elements[k].kind = "hr" => elements[k].next = elements[k].first + 1

----------------------------------------------------------------------------
(* Properties of the inline pass *)

\* the 1-based positions of the inline elements of the given kind
SpansOfKind(kind) == {k \in 1..Len(elements) : elements[k].kind = kind}

\* C3: when parseInlineElements returns, no two surviving matches overlap, and
\* the ranges of the elements returned (a match or the plain text between two
\* matches) follow each other from 0 to text.length without a gap, so that every
\* character index lies in exactly one of them; a plain element shows its range
\* of the text and a match element stands for one surviving match.
C3_SpansTile ==
    pc = "done" =>
        /\ \A j, k \in 1..Len(filteredMatches) :
              j # k => ~Overlaps(filteredMatches[j], filteredMatches[k])
        /\ elements[1].from = 0
        /\ elements[Len(elements)].to = Len(content)
        /\ \A k \in 1..(Len(elements) - 1) : elements[k].to = elements[k + 1].from
        /\ \A n \in 0..(Len(content) - 1) :
              Cardinality({k \in 1..Len(elements) :
                              elements[k].from <= n /\ n < elements[k].to}) = 1
        /\ \A k \in 1..Len(elements) :
              IF elements[k].kind = "text"
              THEN elements[k].text = Substring(content, elements[k].from, elements[k].to)
              ELSE \E j \in 1..Len(filteredMatches) :
                      /\ filteredMatches[j].type = elements[k].kind
                      /\ filteredMatches[j].index = elements[k].from
                      /\ filteredMatches[j].index + filteredMatches[j].length = elements[k].to

\* a returned call in which a candidate was dropped for an overlap and two
\* matches survive with plain text around them
C3_Witness ==
    /\ pc = "done"
    /\ Len(allMatches) > Len(filteredMatches)
    /\ Len(filteredMatches) >= 2
    /\ SpansOfKind("text") # {}

\* the texts of the elements, one after the other
ShownText == Concat([k \in 1..Len(elements) |-> elements[k].text])

\* C4 as stated: the texts of the elements returned, one after the other, are
\* the text given to the inline pass.
C4_TextConserved == pc = "done" => ShownText = content

\* an element written back as source: a match gets the delimiters of its kind
\* around its text again
Rewrap(e) ==
    LET d == content[e.from + 1]
    IN  CASE e.kind = "text"   -> e.text
          [] e.kind = "image"  -> <<"!", "[">> \o e.text \o <<"]", "(">> \o e.url \o <<")">>
          [] e.kind = "link"   -> <<"[">> \o e.text \o <<"]", "(">> \o e.url \o <<")">>
          [] e.kind = "code"   -> <<Backtick>> \o e.text \o <<Backtick>>
          [] e.kind = "bold"   -> <<d, d>> \o e.text \o <<d, d>>
          [] e.kind = "italic" -> <<d>> \o e.text \o <<d>>

\* C4 as amended: the elements returned, one after the other, are the text given
\* to the inline pass once every match element is written back with the
\* delimiters of its match; the texts shown alone are the text given exactly
\* when no match survives.
C4_TextConservedUpToDelimiters ==
    pc = "done" =>
        /\ Concat([k \in 1..Len(elements) |-> Rewrap(elements[k])]) = content
        /\ (ShownText = content) <=> (filteredMatches = <<>>)

\* a returned call with a bold, a link or an image element next to plain text
C4_Witness ==
    /\ pc = "done"
    /\ SpansOfKind("text") # {}
    /\ SpansOfKind("bold") \cup SpansOfKind("link") \cup SpansOfKind("image") # {}

\* the rank of a match type in the registration order of the families
FamilyRank(type) ==
    CASE type = "image" -> 1
      [] type = "link" -> 2
      [] type = "code" -> 3
      [] type = "bold" -> 4
      [] type = "strikethrough" -> 5
      [] type = "italic" -> 6

\* whether the match survives the overlap filter
Survives(m) == \E k \in 1..Len(filteredMatches) : filteredMatches[k] = m

\* C7: of two candidates that overlap, the longer one survives the filter and
\* the shorter one does not; of two of the same length, the one registered
\* first survives and the other does not.
C7_LongerThenFirstRegistered ==
    pc = "done" =>
        LET reg == CollectMatches(content)
        IN  \A x, y \in 1..Len(reg) :
                (x < y /\ Overlaps(reg[x], reg[y])) =>
                    /\ FamilyRank(reg[x].type) <= FamilyRank(reg[y].type)
                    /\ IF reg[y].length > reg[x].length
                       THEN Survives(reg[y]) /\ ~Survives(reg[x])
                       ELSE Survives(reg[x]) /\ ~Survives(reg[y])

\* whether t holds a run of two tildes, one or more letters, two tildes
HasStrikeRun(t) ==
    \E p, q \in 1..Len(t) :
        /\ q >= p + 3 /\ q + 1 <= Len(t)
        /\ t[p] = "~" /\ t[p + 1] = "~" /\ t[q] = "~" /\ t[q + 1] = "~"
        /\ \A k \in (p + 2)..(q - 1) : t[k] = "a"

\* C9: a text made of letters and one run of two tildes, letters, two tildes
\* gives a strikethrough element that shows the letters of the run without the
\* tildes.
C9_Strikethrough ==
    (pc = "done" /\ HasStrikeRun(content) /\ \A k \in 1..Len(content) : content[k] \in {"a", "~"}) =>
        \E k \in SpansOfKind("strikethrough") :
            /\ elements[k].text # <<>>
            /\ \A n \in 1..Len(elements[k].text) : elements[k].text[n] = "a"


----------------------------------------------------------------------------
(* Tables *)

\* the number of "|" characters of t
BarCount(t) == Cardinality({k \in 1..Len(t) : t[k] = "|"})

\* the line is left to the table rule by the two rules tried before it
ReachesTableRule(line) == ~IsHorizontalRule(Trim(line)) /\ ~IsQuoteLine(Trim(line))

\* the elements opened at a line that the table rule is tried on
TriedAsTable == {k \in 1..Len(elements) : ReachesTableRule(OpeningLine(elements[k]))}

\* C11 as stated: a line the table rule is tried on opens a table exactly when
\* its trimmed text contains "|" and has three or more non-empty trimmed cells,
\* and the header row of the table is those cells.
C11_TableOpensOnThreeCells ==
    \A k \in TriedAsTable :
        LET tl == Trim(OpeningLine(elements[k]))
        IN  /\ elements[k].kind = "table" <=> (Includes(tl, "|") /\ Len(Cells(tl)) >= 3)
            /\ elements[k].kind = "table" => elements[k].info.headerRow = Cells(tl)

\* C11 as amended: a line the table rule is tried on opens a table exactly when
\* its trimmed text holds two or more "|" characters, that is when the split on
\* "|" has three or more parts, the empty ones counted; the header row is the
\* trimmed non-empty parts, of which there may be fewer than three.
C11_TableOpensOnTwoBars ==
    \A k \in TriedAsTable :
        LET tl == Trim(OpeningLine(elements[k]))
        IN  /\ elements[k].kind = "table" <=> BarCount(tl) >= 2
            /\ elements[k].kind = "table" =>
                  /\ Len(Split(tl, "|")) = BarCount(tl) + 1
                  /\ elements[k].info.headerRow = Cells(tl)
                  /\ \A c \in 1..Len(elements[k].info.headerRow) :
                        /\ elements[k].info.headerRow[c] # <<>>
                        /\ elements[k].info.headerRow[c] = Trim(elements[k].info.headerRow[c])

\* a returned parse with a table whose header line has two cells only, after a
\* line that holds a "|" and opened no table
C11_Witness ==
    /\ pc = "done"
    /\ \E k \in OfKind("table") : Len(elements[k].info.headerRow) = 2
    /\ \E k \in OfKind("text") : Includes(OpeningLine(elements[k]), "|")

\* every character of the line is white space, "|", ":" or "-"
SeparatorChars(line) == \A c \in 1..Len(line) : line[c] \in WhiteSpace \cup {"|", ":", "-"}

\* the line index a run of lines holding "|" ends at, from line index r on: the
\* first line without "|" or the number of lines
RunEnd(r) ==
    Min({j \in r..Len(lines) : j = Len(lines) \/ ~Includes(lines[j + 1], "|")})

\* what the claim says of the table elements[k], sep being the number of lines,
\* 0 or 1, taken as the separator after the header line: the table took the
\* header, the separator and every line up to the end of the run, its rows are
\* the cells of the lines of the run that have cells, no other element was
\* opened inside the run, and the loop went on with the line after the run
TableTookRun(k, sep) ==
    LET e == elements[k]
        r == e.first + 1 + sep
        last == RunEnd(r)
        cells == [j \in 1..(last - r) |-> Cells(lines[r + j])]
        nonEmpty(row) == row # <<>>
    IN  /\ e.rawLines = SubSeq(lines, e.first + 1, last)
        /\ e.info.tableRows = SelectSeq(cells, nonEmpty)
        /\ e.next = last
        /\ \A j \in 1..Len(elements) : j # k => elements[j].first \notin e.first..(last - 1)
        /\ k < Len(elements) => elements[k + 1].first = last
        /\ (pc = "done" /\ k = Len(elements)) => last = Len(lines)

\* the line after the header line of the table elements[k], or the empty
\* sequence when the header is the last line
AfterHeader(k) ==
    IF elements[k].first + 1 < Len(lines) THEN <<lines[elements[k].first + 2]>> ELSE <<>>

\* C12 as stated: the line directly after a table header is taken as the
\* separator, giving no row, whenever it is made only of white space, "|", ":"
\* and "-"; the table then takes every following line that holds a "|", up to
\* a line without one or the end of the input, one table is pushed for the run
\* and the line after the run is processed next.
C12_SeparatorOfListedCharacters ==
    \A k \in OfKind("table") :
        TableTookRun(k, IF AfterHeader(k) # <<>> /\ SeparatorChars(AfterHeader(k)[1])
                        THEN 1 ELSE 0)

\* C12 as amended: as above, the separator being a line made only of white
\* space, "|", ":" and "-" that is not blank, that is one with a "|", a ":" or
\* a "-" at least; a blank line after the header ends the table.
C12_TableTakesRun ==
    \A k \in OfKind("table") :
        TableTookRun(k, IF /\ AfterHeader(k) # <<>>
                           /\ SeparatorChars(AfterHeader(k)[1])
                           /\ \E c \in 1..Len(AfterHeader(k)[1]) :
                                 AfterHeader(k)[1][c] \in {"|", ":", "-"}
                        THEN 1 ELSE 0)

\* the table of header, separator and one row: one table with the two header
\* cells and the one row of two cells, reaching the end of the input
C12_Witness ==
    /\ pc = "done"
    /\ Len(lines) = 3
    /\ Len(elements) = 1
    /\ elements[1].kind = "table"
    /\ elements[1].info.headerRow = << <<"a">>, <<"b">> >>
    /\ elements[1].info.tableRows = << << <<"1">>, <<"2">> >> >>
    /\ elements[1].rawLines = lines

----------------------------------------------------------------------------
(* Code fences *)

\* the elements opened at a line that starts with three backticks and that the
\* table rule, the one rule before the code rule that such a line can match,
\* does not take
OpenedAtFence ==
    {k \in 1..Len(elements) :
        /\ IsFenceLine(OpeningLine(elements[k]))
        /\ BarCount(Trim(OpeningLine(elements[k]))) < 2}

\* the line index of the fence that closes the one opened at line index f, or
\* the number of lines when no later line starts with three backticks
ClosingFence(f) ==
    Min({j \in (f + 1)..Len(lines) : j = Len(lines) \/ IsFenceLine(lines[j + 1])})

\* the lines between the fence opened at line index f and the line index c
Fenced(f, c) == SubSeq(lines, f + 2, c)

\* C13: a line that starts with three backticks opens a code element. When a
\* later line starts with three backticks, the payload of the element is the
\* lines between the two fences as they are, joined with "\n", it has no inline
\* elements, no element is opened at a line between the fences or at the
\* closing fence, and the loop goes on with the line after the closing fence.
C13_FenceTakesLinesVerbatim ==
    \A k \in OpenedAtFence :
        LET e == elements[k]
            c == ClosingFence(e.first)
        IN  /\ e.kind = "code"
            /\ c < Len(lines) =>
                  /\ e.text = Join(Fenced(e.first, c), <<"\n">>)
                  /\ e.spans = <<>>
                  /\ e.rawLines = SubSeq(lines, e.first + 1, c + 1)
                  /\ \A j \in 1..Len(elements) :
                        j # k => elements[j].first \notin e.first..c
                  /\ k < Len(elements) => elements[k + 1].first = c + 1

\* a returned parse with a closed fence around a line that the blockquote rule
\* and the inline pass would both have changed, kept with its leading space
C13_Witness ==
    /\ pc = "done"
    /\ \E k \in OpenedAtFence :
          LET c == ClosingFence(elements[k].first)
          IN  /\ c = elements[k].first + 2 /\ c < Len(lines)
              /\ RuleOf(lines[c]) = "quote"
              /\ \E s \in 1..Len(ParseInlineElements(lines[c])) :
                    ParseInlineElements(lines[c])[s].kind = "italic"
              /\ elements[k].text = lines[c]
              /\ lines[c][1] = " "

\* the fence at line index f is an opening one that no later line closes: the
\* fences before it pair up and none comes after it
OpenFenceAt(f) ==
    /\ IsFenceLine(lines[f + 1])
    /\ ClosingFence(f) = Len(lines)
    /\ Cardinality({l \in 1..f : IsFenceLine(lines[l])}) % 2 = 0

C15_UnterminatedFenceNoCodeBlock ==
    \A k \in OfKind("code") : ClosingFence(elements[k].first) < Len(lines)

----------------------------------------------------------------------------
(* Blockquotes, checklist items and list items *)

\* the trimmed line starts with ">" and a space
QuotePrefixed(line) ==
    LET tl == Trim(line) IN Len(tl) >= 2 /\ tl[1] = ">" /\ tl[2] = " "

\* the line index a run of quoted lines ends at, from line index f on
QuoteRunEnd(f) ==
    Min({j \in f..Len(lines) : j = Len(lines) \/ ~QuotePrefixed(lines[j + 1])})

\* the trimmed line without its first two characters
Unprefixed(line) == SubSeq(Trim(line), 3, Len(Trim(line)))

\* C16: an element opened at a line whose trimmed text starts with "> " is a
\* blockquote that takes that line and every line right after it whose trimmed
\* text starts with "> " too, as one element; its payload is the trimmed lines
\* without the two characters of the prefix, joined with "\n", given to the
\* inline pass; the next element is opened at the first line after the run,
\* by the rule that line takes.
C16_BlockquoteTakesRun ==
    \A k \in 1..Len(elements) :
        LET e == elements[k]
            last == QuoteRunEnd(e.first)
            text == Join([j \in 1..(last - e.first) |-> Unprefixed(lines[e.first + j])],
                         <<"\n">>)
        IN  QuotePrefixed(OpeningLine(e)) =>
              /\ e.kind = "quote"
              /\ e.rawLines = SubSeq(lines, e.first + 1, last)
              /\ e.text = text
              /\ e.spans = ParseInlineElements(text)
              /\ \A j \in 1..Len(elements) :
                    j # k => elements[j].first \notin e.first..(last - 1)
              /\ k < Len(elements) =>
                    /\ elements[k + 1].first = last
                    /\ elements[k + 1].kind = RuleOf(lines[last + 1])
                    /\ elements[k + 1].kind # "quote"

\* a returned parse with a blockquote of two lines, the second one indented
\* and with an italic run, before an element of another kind
C16_Witness ==
    /\ pc = "done"
    /\ Len(elements) = 2
    /\ elements[1].kind = "quote"
    /\ Len(elements[1].rawLines) = 2
    /\ elements[1].rawLines[2][1] = " "
    /\ elements[1].text = <<"a", "\n", "*", "b", "*">>
    /\ \E s \in 1..Len(elements[1].spans) : elements[1].spans[s].kind = "italic"
    /\ elements[2].kind = "checkbox"

\* the ways to read the trimmed line tl as "-", white space, a bracket with " "
\* or "x" in it, white space if any, and a text that does not start with white
\* space: the check state and the text of each reading (there is one at most)
ChecklistReadings(tl) ==
    {[isChecked |-> tl[a + 2] = "x", text |-> SubSeq(tl, b + 1, Len(tl))] :
        <<a, b>> \in {<<a, b>> \in (1..Len(tl)) \X (1..Len(tl)) :
                        /\ tl[1] = "-"
                        /\ a >= 2 /\ a + 3 <= b
                        /\ \A c \in 2..a : tl[c] \in WhiteSpace
                        /\ tl[a + 1] = "[" /\ tl[a + 2] \in {" ", "x"} /\ tl[a + 3] = "]"
                        /\ \A c \in (a + 4)..b : tl[c] \in WhiteSpace
                        /\ b < Len(tl) => tl[b + 1] \notin WhiteSpace}}

\* the line is a checklist line that the table rule, the one rule before the
\* checklist rule that such a line can match, does not take
ChecklistLine(line) ==
    ChecklistReadings(Trim(line)) # {} /\ BarCount(Trim(line)) < 2

\* C17: an element opened at a checklist line is one checklist item made of
\* that line alone, checked exactly when the bracket holds "x", with the text
\* after the bracket and the white space that follows it; the line after it
\* opens the next element, so that checklist lines that follow one another
\* give one item each, in the order of the lines.
C17_ChecklistItemPerLine ==
    \A k \in 1..Len(elements) :
        LET e == elements[k]
        IN  ChecklistLine(OpeningLine(e)) =>
              /\ e.kind = "checkbox"
              /\ e.rawLines = <<OpeningLine(e)>>
              /\ [isChecked |-> e.info.isChecked, text |-> e.text]
                    \in ChecklistReadings(Trim(OpeningLine(e)))
              /\ e.spans = ParseInlineElements(e.text)
              /\ k < Len(elements) =>
                    /\ elements[k + 1].first = e.first + 1
                    /\ ChecklistLine(lines[e.first + 2]) => elements[k + 1].kind = "checkbox"

\* the two checklist lines, unchecked "a" then checked "b": two items in that
\* order
C17_Witness ==
    /\ pc = "done"
    /\ Len(lines) = 2
    /\ Len(elements) = 2
    /\ elements[1].kind = "checkbox" /\ elements[2].kind = "checkbox"
    /\ ~elements[1].info.isChecked /\ elements[1].text = <<"a">>
    /\ elements[2].info.isChecked /\ elements[2].text = <<"b">>

\* the trimmed line starts with one of the two list markers
ListMarked(line) ==
    LET tl == Trim(line) IN Len(tl) >= 2 /\ tl[1] \in {"-", "*"} /\ tl[2] = " "

\* C18: an element opened at a line whose trimmed text starts with "- " or
\* "* ", and that is not a checklist line (nor, holding two "|" or more, a
\* table header; a line with such a marker is never an ordered list line), is
\* one list item made of that line alone, whose text is the trimmed line
\* without its first two characters: white space before the marker is not
\* part of it and both markers are taken.
C18_ListItemPerLine ==
    \A k \in 1..Len(elements) :
        LET e == elements[k]
            tl == Trim(OpeningLine(e))
        IN  (/\ ListMarked(OpeningLine(e))
             /\ ChecklistReadings(tl) = {}
             /\ BarCount(tl) < 2) =>
              /\ OrderedDot(tl) = 0
              /\ e.kind = "list"
              /\ e.rawLines = <<OpeningLine(e)>>
              /\ e.text = SubSeq(tl, 3, Len(tl))
              /\ e.spans = ParseInlineElements(e.text)
              /\ e.next = e.first + 1

\* a list item made of an indented line, its text without the indentation and
\* the marker
C18_Witness ==
    /\ \E k \in OfKind("list") :
          /\ OpeningLine(elements[k])[1] = " "
          /\ elements[k].text = <<"*", "a", "*">>
          /\ \E s \in 1..Len(elements[k].spans) : elements[k].spans[s].kind = "italic"


----------------------------------------------------------------------------
(* Images, links and italics at collection time *)

\* the positions of the sequence ms whose match is of the given type
OfType(ms, type) == {k \in 1..Len(ms) : ms[k].type = type}

\* the code index is that of a character that follows a "!"
AfterBang(index) == index > 0 /\ content[index] = "!"

\* the occurrences of the image syntax in the text, as the scan finds them:
\* the code index of the "!" and the one after the ")"
ImageRanges ==
    {<<p - 1, ImageEndAt(content, p)>> :
        p \in {p \in 1..Len(content) :
                 /\ ImageEndAt(content, p) # 0
                 /\ \A q \in 1..(p - 1) : ImageEndAt(content, q) < p}}

\* the emitted elements of the given kind that have a character in from..to - 1
ElementsIn(kind, from, to) ==
    {s \in SpansOfKind(kind) : elements[s].from < to /\ from < elements[s].to}

\* no link whose "[" follows a "!" is collected or emitted
NoLinkAfterBang ==
    /\ \A k \in OfType(allMatches, "link") : ~AfterBang(allMatches[k].index)
    /\ \A s \in SpansOfKind("link") : ~AfterBang(elements[s].from)

\* C19 as stated: no link whose "[" follows a "!" is emitted, and every
\* occurrence of the image syntax gives one image element, that of its
\* characters, and no link element on any of its characters.
C19_ImageAlwaysOneImage ==
    pc = "done" =>
        /\ NoLinkAfterBang
        /\ \A r \in ImageRanges :
              /\ ElementsIn("image", r[1], r[2])
                    = {s \in SpansOfKind("image") :
                          elements[s].from = r[1] /\ elements[s].to = r[2]}
              /\ Cardinality(ElementsIn("image", r[1], r[2])) = 1
              /\ ElementsIn("link", r[1], r[2]) = {}

\* the image match of the occurrence r among the matches ms, if it is there
ImageMatchOf(ms, r) ==
    {k \in OfType(ms, "image") : ms[k].index = r[1] /\ ms[k].index + ms[k].length = r[2]}

\* C19 as amended: no link whose "[" follows a "!" is collected or emitted;
\* every occurrence of the image syntax is collected as an image match, which
\* is kept by the overlap filter when no other collected match shares a
\* character with it, and which gives, when it is kept, one image element, that
\* of its characters, and no link element on any of its characters.
C19_ImageNotLink ==
    pc = "done" =>
        /\ NoLinkAfterBang
        /\ \A r \in ImageRanges :
              /\ Cardinality(ImageMatchOf(allMatches, r)) = 1
              /\ (\A k \in 1..Len(allMatches) :
                     \/ k \in ImageMatchOf(allMatches, r)
                     \/ allMatches[k].index >= r[2]
                     \/ allMatches[k].index + allMatches[k].length <= r[1])
                 => ImageMatchOf(filteredMatches, r) # {}
              /\ ImageMatchOf(filteredMatches, r) # {} =>
                    /\ ElementsIn("image", r[1], r[2])
                          = {s \in SpansOfKind("image") :
                                elements[s].from = r[1] /\ elements[s].to = r[2]}
                    /\ Cardinality(ElementsIn("image", r[1], r[2])) = 1
                    /\ ElementsIn("link", r[1], r[2]) = {}

\* an image, the plain text "a" and a link: three elements in that order
C19_Witness ==
    /\ pc = "done"
    /\ content = <<"!", "[", "a", "]", "(", "u", ")", "a", "[", "a", "]", "(", "u", ")">>
    /\ Len(elements) = 3
    /\ elements[1].kind = "image" /\ elements[1].text = <<"a">> /\ elements[1].url = <<"u">>
    /\ elements[2].kind = "text" /\ elements[2].text = <<"a">>
    /\ elements[3].kind = "link" /\ elements[3].text = <<"a">> /\ elements[3].url = <<"u">>

\* the italic candidates of the text: what the italic expression matches, in
\* the order of the scan
ItalicCandidates == ExecAll("italic", content, 1)

\* the collected matches of another family that the code index lies inside of
Around(index) ==
    {k \in 1..Len(allMatches) :
        /\ allMatches[k].type \in {"image", "link", "code", "bold"}
        /\ allMatches[k].index <= index
        /\ index < allMatches[k].index + allMatches[k].length}

\* C20: an italic candidate that starts inside a collected image, link, inline
\* code or bold match (the code collects no strikethrough match) is not among
\* the collected matches, and no italic element that starts where it starts
\* is returned.
C20_ItalicInsideOtherDiscarded ==
    pc = "done" =>
        \A c \in 1..Len(ItalicCandidates) :
            Around(ItalicCandidates[c].index) # {} =>
                /\ \A k \in OfType(allMatches, "italic") :
                      allMatches[k].index # ItalicCandidates[c].index
                /\ \A s \in SpansOfKind("italic") :
                      elements[s].from # ItalicCandidates[c].index

\* a returned parse with an italic candidate that starts inside an inline code
\* and ends after it, being the longer of the two: the inline code is returned
C20_Witness ==
    /\ pc = "done"
    /\ \E c \in 1..Len(ItalicCandidates) :
          \E k \in Around(ItalicCandidates[c].index) :
              /\ allMatches[k].type = "code"
              /\ ItalicCandidates[c].length > allMatches[k].length
              /\ \E s \in SpansOfKind("code") : elements[s].from = allMatches[k].index

----------------------------------------------------------------------------
(* Where the inline pass is applied *)

\* the kinds of the elements that show one text
OneTextKinds == {"text", "heading", "checkbox", "ordered-list", "list", "quote"}

\* the inline pass is applied to the text of every element that shows one
\* text and to every data cell of every table, and a code element shows its
\* payload as it is
InlinePassOnTexts ==
    \A k \in 1..Len(elements) :
        LET e == elements[k]
        IN  /\ e.kind \in OneTextKinds => e.spans = ParseInlineElements(e.text)
            /\ e.kind = "code" => e.spans = <<>>
            /\ e.kind = "table" =>
                  /\ Len(e.spans) = Len(e.info.tableRows)
                  /\ \A r \in 1..Len(e.info.tableRows) :
                        /\ Len(e.spans[r]) = Len(e.info.tableRows[r])
                        /\ \A c \in 1..Len(e.info.tableRows[r]) :
                              e.spans[r][c] = ParseInlineElements(e.info.tableRows[r][c])

\* C21: the inline pass is applied to the text of every paragraph, heading,
\* checklist item, list item and blockquote, to every data cell and to every
\* header cell of every table, and never to the payload of a code element.
C21_InlinePassOnEveryText ==
    /\ InlinePassOnTexts
    /\ \A k \in OfKind("table") :
          \A c \in 1..Len(elements[k].info.headerRow) :
              elements[k].info.headerShown[c]
                  = ParseInlineElements(elements[k].info.headerRow[c])

----------------------------------------------------------------------------
(* Delimiters without a match *)

\* the 1-based positions of the text that hold the character c
PositionsOf(c) == {p \in 1..Len(content) : content[p] = c}

\* the text has a pair of the bold delimiter d: d twice, one character or
\* more, d twice again
HasBoldPair(d) ==
    \E p, q \in PositionsOf(d) : q >= p + 3 /\ p + 1 \in PositionsOf(d) /\ q + 1 \in PositionsOf(d)

\* the text has a "[" with a "]" somewhere after it
HasBracketPair ==
    \E p \in PositionsOf("[") : \E q \in PositionsOf("]") : q > p

\* the code index is that of a character of a plain text element, which shows
\* the characters of its range as they are
ShownAsPlainText(index) ==
    \E s \in SpansOfKind("text") :
        /\ elements[s].from <= index /\ index < elements[s].to
        /\ elements[s].text = Substring(content, elements[s].from, elements[s].to)

----------------------------------------------------------------------------
(* A series of calls. The preview calls parseMarkdown(content) at every      *)
(* render, and parseMarkdown calls parseInlineElements for the texts of its  *)
(* blocks; the calls come one after another on the one JavaScript thread.    *)
(* The locals of a call are declared anew at its entry: the variables of the *)
(* model keep the values the call before left until the declaration is       *)
(* modelled, so a value that survived a call would show in the results.      *)

\* most calls of a series
MaxCalls == 3

\* the texts given to parseMarkdown in a series of calls: between them they
\* take every branch of the loop
MarkdownCallTexts ==
    {<<"#", " ", "a", "\n", "-", "-", "-", "\n", ">", " ", "a", "\n", "\n", "1", ".", " ", "a">>,
     <<"|", "a", "|", "b", "|", "\n", "|", "-", "|", "-", "|", "\n", "-", " ", "[", " ", "]", " ", "a", "\n", "-", " ", "a">>,
     <<Backtick, Backtick, Backtick, "\n", "a", "\n", Backtick, Backtick, Backtick, "\n", "*", "a", "*", " ", "b">>}

\* the texts given to parseInlineElements in a series of calls
InlineCallTexts ==
    {<<>>, <<"a">>, <<"*", "a", "*">>, <<Backtick, "a", Backtick, "*", "a", "*">>}

InitCalls ==
    /\ pc = "idle"
    /\ content = <<>>
    /\ lines = <<>>
    /\ i = 0
    /\ elements = <<>>
    /\ allMatches = <<>>
    /\ filteredMatches = <<>>
    /\ OutsideParserInit

\* parseMarkdown(content) is called with a text; its locals are declared by
\* StartParse
CallMarkdown ==
    /\ pc = "idle"
    /\ Len(returned) < MaxCalls
    /\ \E t \in MarkdownCallTexts : content' = t
    /\ pc' = "start"
    /\ UNCHANGED <<lines, i, elements, allMatches, filteredMatches, outsideParser>>

\* the caller receives what parseMarkdown returned
ReceiveMarkdown ==
    /\ pc = "done"
    /\ returned' = Append(returned, [call |-> "parseMarkdown", text |-> content,
                                     elements |-> elements])
    /\ pc' = "idle"
    /\ UNCHANGED <<content, lines, i, elements, allMatches, filteredMatches, regexLastIndex, outsideCalls>>

\* CallInline with the bug of an allMatches array that is shared by all calls
CallInlineSharedMatches ==
    /\ pc = "idle"
    /\ Len(returned) < MaxCalls
    /\ \E t \in InlineCallTexts :
          /\ content' = t
          /\ IF t = <<>>
             THEN /\ returned' = Append(returned, [call |-> "parseInlineElements", text |-> t,
                                                   elements |-> <<TextElement(t, 0, 0)>>])
                  /\ UNCHANGED <<pc, elements, allMatches, regexLastIndex>>
             ELSE /\ pc' = "collect"
                  /\ elements' = <<>>
                  /\ regexLastIndex' = FreshLastIndex
                  /\ UNCHANGED <<returned, allMatches>>
    /\ UNCHANGED <<lines, i, filteredMatches, outsideCalls>>

\* parseInlineElements(text, keyPrefix) is called: [text] is returned at once
\* for the empty text; otherwise elements and allMatches are new empty arrays,
\* and each regex literal of the body makes a new regex object, lastIndex 0
CallInline ==
    /\ pc = "idle"
    /\ Len(returned) < MaxCalls
    /\ \E t \in InlineCallTexts :
          /\ content' = t
          /\ IF t = <<>>
             THEN /\ returned' = Append(returned, [call |-> "parseInlineElements", text |-> t,
                                                   elements |-> <<TextElement(t, 0, 0)>>])
                  /\ UNCHANGED <<pc, elements, allMatches, regexLastIndex>>
             ELSE /\ pc' = "collect"
                  /\ elements' = <<>>
                  /\ allMatches' = <<>>
                  /\ regexLastIndex' = FreshLastIndex
                  /\ UNCHANGED returned
    /\ UNCHANGED <<lines, i, filteredMatches, outsideCalls>>

\* the five exec loops: each regex searches from its lastIndex on and pushes to
\* allMatches; the exec that returns null leaves lastIndex 0
CollectAll ==
    /\ pc = "collect"
    /\ LET from(type) == regexLastIndex[type] + 1
           notImage(m) == ~(m.index > 0 /\ content[m.index] = "!")
       IN  allMatches' =
               PushItalics(allMatches
                               \o ExecAll("image", content, from("image"))
                               \o SelectSeq(ExecAll("link", content, from("link")), notImage)
                               \o ExecAll("code", content, from("code"))
                               \o ExecAll("bold", content, from("bold")),
                           ExecAll("italic", content, from("italic")))
    /\ regexLastIndex' = FreshLastIndex
    /\ pc' = "filter"
    /\ UNCHANGED <<content, lines, i, elements, filteredMatches, returned, outsideCalls>>

\* allMatches.sort, then the overlap filter into a new filteredMatches array,
\* and its sort
FilterAll ==
    /\ pc = "filter"
    /\ allMatches' = SortByIndex(allMatches)
    /\ filteredMatches' = FilterMatches(allMatches')
    /\ pc' = "emit"
    /\ UNCHANGED <<content, lines, i, elements, outsideParser>>

\* filteredMatches.forEach pushes to elements; the call returns elements, or
\* [text] if nothing was pushed
EmitAll ==
    /\ pc = "emit"
    /\ LET es == elements \o EmitLoop(content, filteredMatches, 0)
       IN  elements' = IF es # <<>> THEN es ELSE <<TextElement(content, 0, Len(content))>>
    /\ returned' = Append(returned, [call |-> "parseInlineElements", text |-> content,
                                     elements |-> elements'])
    /\ pc' = "idle"
    /\ UNCHANGED <<content, lines, i, allMatches, filteredMatches, regexLastIndex, outsideCalls>>

NextCalls ==
    \/ CallMarkdown
    \/ StartParse
    \/ HorizontalRule
    \/ Blockquote
    \/ Table
    \/ Heading
    \/ Checkbox
    \/ OrderedList
    \/ List
    \/ CodeBlock
    \/ Space
    \/ Paragraph
    \/ Return
    \/ ReceiveMarkdown
    \/ CallInline
    \/ CollectAll
    \/ FilterAll
    \/ EmitAll

SpecCalls == InitCalls /\ [][NextCalls]_vars

\* the calls of the series that returned, by position
ReturnedCalls == 1..Len(returned)

\* C23: parse is deterministic and keeps no state between calls. In a series
\* of calls of parseMarkdown and parseInlineElements, two calls of the same
\* function with the same text returned the same elements (blocks with their
\* spans, or spans), whatever was parsed before and in between; a call of
\* parseInlineElements returned what it returns for that text when it is the
\* first call ever made; and between calls every regex stands at lastIndex 0.
C23_SameTextSameResult ==
    /\ \A a \in ReturnedCalls : \A b \in ReturnedCalls :
          (returned[a].call = returned[b].call /\ returned[a].text = returned[b].text)
              => returned[a].elements = returned[b].elements
    /\ \A a \in ReturnedCalls :
          returned[a].call = "parseInlineElements"
              => returned[a].elements = ParseInlineElements(returned[a].text)
    /\ pc = "idle" => regexLastIndex = FreshLastIndex

\* a text was parsed a second time after a different text with matches of its
\* own was parsed in between
C23_Witness ==
    /\ Len(returned) = 3
    /\ returned[1].call = "parseInlineElements"
    /\ returned[3] = returned[1]
    /\ returned[2].call = "parseInlineElements"
    /\ returned[2].text # returned[1].text
    /\ \E k \in 1..Len(returned[2].elements) : returned[2].elements[k].kind = "italic"
    /\ \A k \in 1..Len(returned[1].elements) : returned[1].elements[k].kind = "text"


----------------------------------------------------------------------------
(* The overlap filter and the matches it drops *)

\* C30: when parseInlineElements returns, every collected match that did not
\* survive the overlap filter overlaps a match that did survive: no candidate
\* is lost because of a match that was itself replaced later by a longer one.
C30_DroppedOnlyForSurvivor ==
    pc = "done" =>
        \A k \in 1..Len(allMatches) :
            ~Survives(allMatches[k]) =>
                \E j \in 1..Len(filteredMatches) : Overlaps(allMatches[k], filteredMatches[j])


----------------------------------------------------------------------------
(* The useAuth hook (src/unnamed/part_006): fetchUser and logout. Each await *)
(* of the code ends a step, so a fetchUser and a logout that are both in     *)
(* flight interleave at their awaits. The storage functions of               *)
(* @/lib/_core/auth are taken by what their callers use them for: one key    *)
(* each for the session token and the user info, written or removed by the   *)
(* time the awaited call returns.                                            *)

\* the user the server answers with, and the error a failed call leaves
TheUser == "user"
FetchFailed == "Failed to fetch user"

InitAuth ==
    /\ OutsideAuthInit
    /\ platformOS \in {"web", "native"}
    /\ session \in BOOLEAN
    /\ sessionToken \in {"null", "token"}
    /\ userInfo \in {"null", TheUser}
    /\ user = "null"
    /\ loading = TRUE
    /\ authError = "null"
    /\ fetchPc = "idle"
    /\ logoutPc = "idle"
    /\ logoutApi = "none"

\* the part of the state no step of useAuth changes
AuthFrame == UNCHANGED <<platformOS, outsideAuth>>

\* fetchUser is called (by the mount effect, or as refresh): setLoading(true),
\* setError(null), then the first await of the platform's branch
FetchUser ==
    /\ fetchPc = "idle"
    /\ loading' = TRUE
    /\ authError' = "null"
    /\ fetchPc' = IF platformOS = "web" THEN "getMe" ELSE "getSessionToken"
    /\ UNCHANGED <<session, sessionToken, userInfo, user, logoutPc, logoutApi>>
    /\ AuthFrame

\* web: the server answers Api.getMe() with the user of the session or with
\* null, or the request fails
GetMeAnswered ==
    /\ fetchPc = "getMe"
    /\ \E failed \in BOOLEAN :
          fetchPc' = IF failed THEN "getMeFailed"
                     ELSE IF session THEN "getMeUser" ELSE "getMeNull"
    /\ UNCHANGED <<session, sessionToken, userInfo, user, loading, authError, logoutPc, logoutApi>>
    /\ AuthFrame

\* web: await Api.getMe() returns: setUser(userInfo) and Auth.setUserInfo is
\* called, or setUser(null) and Auth.clearUserInfo is called; a failure goes to
\* the catch and the finally block
GetMeReturns ==
    /\ fetchPc \in {"getMeUser", "getMeNull", "getMeFailed"}
    /\ CASE fetchPc = "getMeUser" ->
                /\ user' = TheUser
                /\ fetchPc' = "setUserInfo"
                /\ UNCHANGED <<loading, authError>>
         [] fetchPc = "getMeNull" ->
                /\ user' = "null"
                /\ fetchPc' = "clearUserInfo"
                /\ UNCHANGED <<loading, authError>>
         [] fetchPc = "getMeFailed" ->
                /\ authError' = FetchFailed
                /\ user' = "null"
                /\ loading' = FALSE
                /\ fetchPc' = "idle"
    /\ UNCHANGED <<session, sessionToken, userInfo, logoutPc, logoutApi>>
    /\ AuthFrame

\* web: await Auth.setUserInfo(userInfo) or await Auth.clearUserInfo() returns;
\* return, and the finally block
CacheWritten ==
    /\ fetchPc \in {"setUserInfo", "clearUserInfo"}
    /\ userInfo' = IF fetchPc = "setUserInfo" THEN TheUser ELSE "null"
    /\ loading' = FALSE
    /\ fetchPc' = "idle"
    /\ UNCHANGED <<session, sessionToken, user, authError, logoutPc, logoutApi>>
    /\ AuthFrame

\* native: await Auth.getSessionToken() returns: without a token setUser(null)
\* and return, otherwise Auth.getUserInfo is called
GetSessionTokenReturns ==
    /\ fetchPc = "getSessionToken"
    /\ IF sessionToken = "null"
       THEN /\ user' = "null"
            /\ loading' = FALSE
            /\ fetchPc' = "idle"
       ELSE /\ fetchPc' = "getUserInfo"
            /\ UNCHANGED <<user, loading>>
    /\ UNCHANGED <<session, sessionToken, userInfo, authError, logoutPc, logoutApi>>
    /\ AuthFrame

\* native: await Auth.getUserInfo() returns: setUser(cachedUser) or
\* setUser(null), and the finally block
GetUserInfoReturns ==
    /\ fetchPc = "getUserInfo"
    /\ user' = userInfo
    /\ loading' = FALSE
    /\ fetchPc' = "idle"
    /\ UNCHANGED <<session, sessionToken, userInfo, authError, logoutPc, logoutApi>>
    /\ AuthFrame

\* logout is called: Api.logout() is awaited
Logout ==
    /\ logoutPc = "idle"
    /\ logoutPc' = "apiLogout"
    /\ logoutApi' = "none"
    /\ UNCHANGED <<session, sessionToken, userInfo, user, loading, authError, fetchPc>>
    /\ AuthFrame

\* ApiLogoutReturns with the bug of a cleanup that runs after a successful
\* Api.logout() only
ApiLogoutReturnsNoFinally ==
    /\ logoutPc = "apiLogout"
    /\ \E ok \in BOOLEAN :
          /\ logoutApi' = IF ok THEN "ok" ELSE "failed"
          /\ logoutPc' = IF ok THEN "removeSessionToken" ELSE "idle"
          /\ \E received \in BOOLEAN : session' = (session /\ ~(ok \/ received))
    /\ UNCHANGED <<sessionToken, userInfo, user, loading, authError, fetchPc>>
    /\ AuthFrame

\* await Api.logout() returns or throws (the catch only logs); the server
\* dropped the session if the call succeeded, and may have if it failed; the
\* finally block calls Auth.removeSessionToken
ApiLogoutReturns ==
    /\ logoutPc = "apiLogout"
    /\ \E ok \in BOOLEAN :
          /\ logoutApi' = IF ok THEN "ok" ELSE "failed"
          /\ logoutPc' = "removeSessionToken"
          /\ \E received \in BOOLEAN : session' = (session /\ ~(ok \/ received))
    /\ UNCHANGED <<sessionToken, userInfo, user, loading, authError, fetchPc>>
    /\ AuthFrame

\* await Auth.removeSessionToken() returns; Auth.clearUserInfo is called
SessionTokenRemoved ==
    /\ logoutPc = "removeSessionToken"
    /\ sessionToken' = "null"
    /\ logoutPc' = "clearUserInfo"
    /\ UNCHANGED <<session, userInfo, user, loading, authError, fetchPc, logoutApi>>
    /\ AuthFrame

\* await Auth.clearUserInfo() returns; setUser(null), setError(null), and
\* logout returns
UserInfoCleared ==
    /\ logoutPc = "clearUserInfo"
    /\ userInfo' = "null"
    /\ user' = "null"
    /\ authError' = "null"
    /\ logoutPc' = "idle"
    /\ UNCHANGED <<session, sessionToken, loading, fetchPc, logoutApi>>
    /\ AuthFrame

NextAuth ==
    \/ FetchUser
    \/ GetMeAnswered
    \/ GetMeReturns
    \/ CacheWritten
    \/ GetSessionTokenReturns
    \/ GetUserInfoReturns
    \/ Logout
    \/ ApiLogoutReturns
    \/ SessionTokenRemoved
    \/ UserInfoCleared

SpecAuth == InitAuth /\ [][NextAuth]_vars

\* the step with which a call of logout returns
LogoutReturns == logoutPc # "idle" /\ logoutPc' = "idle"

----------------------------------------------------------------------------
(* The download hook of the web build (src/hooks/use-markdown-download-web.ts) *)
(* as the editor's handleDownload calls it (src/app/editor.tsx). A step ends   *)
(* at an await of navigator.share or at the return of downloadAsMarkdown,      *)
(* downloadAsHTML or downloadAsText to handleDownload.                         *)

Formats == {"markdown", "html", "text"}
Methods == {"share", "local"}
\* how a call of navigator.share ends: resolved, rejected with AbortError (the
\* user dismissed the dialog), rejected with another error
ShareOutcomes == {"shared", "AbortError", "NotAllowedError"}
DownloadFailed == "download failed"

InitShare ==
    /\ OutsideShareInit
    /\ shareSupport \in {"none", "text", "files"}
    /\ downloading = FALSE
    /\ shareError = "null"
    /\ sharePc = "idle"
    /\ shareCall = <<>>
    /\ cancelled = FALSE
    /\ saved = FALSE
    /\ alert = "none"

\* the part of the state no step of the download hook changes
ShareFrame == UNCHANGED <<shareSupport, outsideShare>>

\* downloadFile(...) with the result ok, then if (!result) throw in the caller:
\* setDownloading(true), setError(null), the download, setError(message) in the
\* catch, setDownloading(false) in the finally block
DownloadFileThen(ok) ==
    /\ downloading' = FALSE
    /\ shareError' = IF ok THEN "null" ELSE DownloadFailed
    /\ sharePc' = IF ok THEN "returned" ELSE "threw"
    /\ saved' = ok

\* handleDownload(format, method) calls downloadAsMarkdown, downloadAsHTML or
\* downloadAsText: for "local" downloadFile runs; for "share" shareFile runs
\* up to its first await, or to its return where navigator.share is missing
HandleDownload ==
    /\ sharePc = "idle"
    /\ \E format \in Formats, method \in Methods, ok \in BOOLEAN :
          /\ shareCall' = <<format, method>>
          /\ IF method = "local" \/ shareSupport = "none"
             THEN DownloadFileThen(ok)
             ELSE /\ downloading' = TRUE
                  /\ shareError' = "null"
                  /\ sharePc' = IF shareSupport = "files" THEN "fileShare" ELSE "textShare"
                  /\ saved' = FALSE
    /\ cancelled' = FALSE
    /\ alert' = "none"
    /\ ShareFrame

\* await navigator.share({files, ...}) ends: return true if it resolved; the
\* inner catch takes every rejection, and the text share is called
FileShareEnds ==
    /\ sharePc = "fileShare"
    /\ \E outcome \in ShareOutcomes :
          /\ cancelled' = (cancelled \/ outcome = "AbortError")
          /\ IF outcome = "shared"
             THEN downloading' = FALSE /\ sharePc' = "returned"
             ELSE downloading' = downloading /\ sharePc' = "textShare"
    /\ UNCHANGED <<shareError, shareCall, saved, alert>>
    /\ ShareFrame

\* await navigator.share({title, text}) ends: return true if it resolved,
\* return false on AbortError, downloadFile otherwise; the finally block; in
\* the caller, if (!result) throw new Error
TextShareEnds ==
    /\ sharePc = "textShare"
    /\ \E outcome \in ShareOutcomes, ok \in BOOLEAN :
          /\ cancelled' = (cancelled \/ outcome = "AbortError")
          /\ CASE outcome = "shared" ->
                    downloading' = FALSE /\ sharePc' = "returned" /\ UNCHANGED <<shareError, saved>>
               [] outcome = "AbortError" ->
                    downloading' = FALSE /\ sharePc' = "threw" /\ UNCHANGED <<shareError, saved>>
               [] OTHER -> DownloadFileThen(ok)
    /\ UNCHANGED <<shareCall, alert>>
    /\ ShareFrame

\* the await of handleDownload ends: the success alert, or the error alert of
\* its catch
ShowAlert ==
    /\ sharePc \in {"returned", "threw"}
    /\ alert' = IF sharePc = "returned" THEN "success" ELSE "error"
    /\ sharePc' = "idle"
    /\ UNCHANGED <<downloading, shareError, shareCall, cancelled, saved>>
    /\ ShareFrame

NextShare ==
    \/ HandleDownload
    \/ FileShareEnds
    \/ TextShareEnds
    \/ ShowAlert

SpecShare == InitShare /\ [][NextShare]_vars

\* C26: a share cancelled by the user is not treated as an error: in a call
\* in which navigator.share rejected with AbortError no error state is set,
\* the downloadAs... call does not throw, and no error alert is shown.
C26_CancelledShareIsNoError ==
    cancelled =>
        /\ shareError = "null"
        /\ sharePc # "threw"
        /\ alert # "error"


----------------------------------------------------------------------------
(* The file-management hooks: useMarkdownFilesWeb over IndexedDB             *)
(* (src/hooks/use-markdown-files-web.ts), useMarkdownFilesNative over the    *)
(* file system and AsyncStorage (src/hooks/use-markdown-files-native.ts),    *)
(* and useMarkdownFiles over AsyncStorage (src/unnamed/part_001). A file is  *)
(* a record of id, name, content and updatedAt (createdAt is never read). An *)
(* operation in flight stands at an await; it carries what its closure holds:*)
(* the files array of the render it was called in (snapshot), the file and   *)
(* the list it is about to write. The requests of IndexedDB finish in the    *)
(* order of their transactions, read-only ones next to each other in any     *)
(* order; the awaits of the other two hooks resume in any order. Date.now()  *)
(* never goes back.                                                          *)

\* most operations called on a hook
MaxOps == 2
\* the latest reading of the clock
MaxNow == 2

\* what the store holds when the hook is mounted
InitialStores ==
    {<<>>,
     <<[id |-> 0, name |-> "a", content |-> "", updatedAt |-> 0],
       [id |-> 1, name |-> "b", content |-> "", updatedAt |-> 1]>>}
\* the names and contents the user gives
NewNames == {"n"}
NewContents == {"c"}

RECURSIVE StableSort(_, _)
\* Array.prototype.sort with a comparator on one key: by updatedAt, newest
\* first, or by id as an object store lists its records; elements of equal
\* key keep their order
StableSort(fs, key) ==
    IF fs = <<>> THEN <<>>
    ELSE LET rank(f) == IF key = "updatedAt" THEN 0 - f.updatedAt ELSE f.id
             k == CHOOSE k \in 1..Len(fs) :
                     /\ \A j \in 1..Len(fs) : rank(fs[k]) <= rank(fs[j])
                     /\ \A j \in 1..(k - 1) : rank(fs[j]) > rank(fs[k])
         IN  <<fs[k]>> \o StableSort(SubSeq(fs, 1, k - 1) \o SubSeq(fs, k + 1, Len(fs)), key)

\* fs.sort((a, b) => b.updatedAt - a.updatedAt)
SortNewestFirst(fs) == StableSort(fs, "updatedAt")

\* the ids of a list of files
Ids(fs) == {fs[k].id : k \in 1..Len(fs)}

\* fs.find((f) => f.id === id), <<>> for undefined
Find(fs, id) ==
    IF id \in Ids(fs) THEN fs[Min({k \in 1..Len(fs) : fs[k].id = id})] ELSE <<>>

\* fs.map((f) => (f.id === file.id ? file : f))
Replace(fs, file) == [k \in 1..Len(fs) |-> IF fs[k].id = file.id THEN file ELSE fs[k]]

\* fs.filter((f) => f.id !== id)
Without(fs, id) == SelectSeq(fs, LAMBDA f : f.id # id)

\* store.put(file), and store.add(file) of a new key
StorePut(st, file) == StableSort(Append(Without(st, file.id), file), "id")

\* the list saveFile of useMarkdownFiles writes
SaveFileList(fs, file) ==
    SortNewestFirst(IF file.id \in Ids(fs) THEN Replace(fs, file) ELSE Append(fs, file))

\* an operation in flight
Op(op, phase, id, arg, snapshot, file, list) ==
    [op |-> op, phase |-> phase, id |-> id, arg |-> arg, snapshot |-> snapshot,
     file |-> file, list |-> list]

\* ops without its k-th operation
Ended(k) == SubSeq(ops, 1, k - 1) \o SubSeq(ops, k + 1, Len(ops))

\* the user calls an operation of the hook; during lists the operations that
\* are in flight at the call
Calls(hook, op, id, arg) ==
    /\ backend = hook
    /\ Len(called) < MaxOps
    /\ called' = Append(called, [op |-> op, id |-> id, arg |-> arg,
                                 during |-> [k \in 1..Len(ops) |-> ops[k].op]])
    /\ UNCHANGED <<backend, now, stored, files, outsideFiles>>

\* the operation at position k of ops resumes from the given await
Resumes(hook, k, phase) ==
    /\ backend \in hook
    /\ ops[k].phase = phase
    /\ UNCHANGED <<backend, now, called, outsideFiles>>

\* the IndexedDB request of ops[k] can finish: its transaction is the oldest,
\* or it is read-only and so is every older one
RequestReady(k) ==
    \A j \in 1..(k - 1) : ops[j].phase \in {"get", "getAll"} /\ ops[k].phase \in {"get", "getAll"}

\* the hook was mounted and loadFiles is at its await
InitFiles ==
    /\ OutsideFilesInit
    /\ backend \in {"web", "native", "universal"}
    /\ now = 1
    /\ stored \in InitialStores
    /\ files = <<>>
    /\ ops = <<Op("load", IF backend = "web" THEN "getAll" ELSE "getItem", 0, "", <<>>, <<>>, <<>>)>>
    /\ called = <<>>

\* time passes
Tick ==
    /\ now < MaxNow
    /\ now' = now + 1
    /\ UNCHANGED <<backend, stored, files, ops, called, outsideFiles>>

(* useMarkdownFilesWeb *)

\* request.onsuccess of getAll: setFiles(sorted)
WebLoaded ==
    \E k \in 1..Len(ops) :
        /\ Resumes({"web"}, k, "getAll")
        /\ RequestReady(k)
        /\ files' = SortNewestFirst(stored)
        /\ ops' = Ended(k)
        /\ UNCHANGED stored

\* createFile(name) up to store.add(newFile)
WebCreateFile ==
    \E name \in NewNames :
        LET newFile == [id |-> 10 + Len(called), name |-> name, content |-> "", updatedAt |-> now]
        IN  /\ Calls("web", "create", newFile.id, name)
            /\ ops' = Append(ops, Op("create", "add", newFile.id, name, <<>>, newFile, <<>>))

\* request.onsuccess of add: setFiles((prev) => [newFile, ...prev])
WebAdded ==
    \E k \in 1..Len(ops) :
        /\ Resumes({"web"}, k, "add")
        /\ RequestReady(k)
        /\ stored' = StorePut(stored, ops[k].file)
        /\ files' = <<ops[k].file>> \o files
        /\ ops' = Ended(k)

\* updateFileContent(fileId, content) up to store.get(fileId)
WebUpdateFileContent ==
    \E id \in Ids(files), newContent \in NewContents :
        /\ Calls("web", "update", id, newContent)
        /\ ops' = Append(ops, Op("update", "get", id, newContent, <<>>, <<>>, <<>>))

\* renameFile(fileId, newName) up to store.get(fileId)
WebRenameFile ==
    \E id \in Ids(files), name \in NewNames :
        /\ Calls("web", "rename", id, name)
        /\ ops' = Append(ops, Op("rename", "get", id, name, <<>>, <<>>, <<>>))

\* await getFilePromise returns: return null without the file, otherwise
\* the file with the new content or name and updatedAt: Date.now() goes to
\* store.put in a new transaction
WebGot ==
    \E k \in 1..Len(ops) :
        /\ Resumes({"web"}, k, "get")
        /\ RequestReady(k)
        /\ LET file == Find(stored, ops[k].id)
               changed == IF ops[k].op = "update"
                          THEN [file EXCEPT !.content = ops[k].arg, !.updatedAt = now]
                          ELSE [file EXCEPT !.name = ops[k].arg, !.updatedAt = now]
           IN  ops' = IF file = <<>> THEN Ended(k)
                      ELSE Append(Ended(k), [ops[k] EXCEPT !.phase = "put", !.file = changed])
        /\ UNCHANGED <<stored, files>>

\* WebPut with the bug of a list that is not sorted again
WebPutUnsorted ==
    \E k \in 1..Len(ops) :
        /\ Resumes({"web"}, k, "put")
        /\ RequestReady(k)
        /\ stored' = StorePut(stored, ops[k].file)
        /\ files' = Replace(files, ops[k].file)
        /\ ops' = Ended(k)

\* request.onsuccess of put: setFiles((prev) => prev.map(...).sort(...))
WebPut ==
    \E k \in 1..Len(ops) :
        /\ Resumes({"web"}, k, "put")
        /\ RequestReady(k)
        /\ stored' = StorePut(stored, ops[k].file)
        /\ files' = SortNewestFirst(Replace(files, ops[k].file))
        /\ ops' = Ended(k)

\* deleteFile(fileId) up to store.delete(fileId)
WebDeleteFile ==
    \E id \in Ids(files) :
        /\ Calls("web", "delete", id, "")
        /\ ops' = Append(ops, Op("delete", "delete", id, "", <<>>, <<>>, <<>>))

\* request.onsuccess of delete: setFiles((prev) => prev.filter(...))
WebDeleted ==
    \E k \in 1..Len(ops) :
        /\ Resumes({"web"}, k, "delete")
        /\ RequestReady(k)
        /\ stored' = Without(stored, ops[k].id)
        /\ files' = Without(files, ops[k].id)
        /\ ops' = Ended(k)

(* useMarkdownFilesNative and useMarkdownFiles *)

\* await AsyncStorage.getItem returns in loadFiles: setFiles of the sorted
\* list; without stored data useMarkdownFilesNative sets [] and
\* useMarkdownFiles sets nothing
MetadataLoaded ==
    \E k \in 1..Len(ops) :
        /\ Resumes({"native", "universal"}, k, "getItem")
        /\ files' = IF stored = <<>> /\ backend = "universal" THEN files
                    ELSE SortNewestFirst(stored)
        /\ ops' = Ended(k)
        /\ UNCHANGED stored

\* await AsyncStorage.setItem returns in saveMetadata or saveFile:
\* setFiles(updatedFiles)
MetadataSaved ==
    \E k \in 1..Len(ops) :
        /\ Resumes({"native", "universal"}, k, "setItem")
        /\ stored' = ops[k].list
        /\ files' = ops[k].list
        /\ ops' = Ended(k)

\* useMarkdownFilesNative: createFile(name) up to FileSystemUtils.saveFile
NativeCreateFile ==
    \E name \in NewNames :
        LET newFile == [id |-> 10 + Len(called), name |-> name, content |-> "", updatedAt |-> now]
        IN  /\ Calls("native", "create", newFile.id, name)
            /\ ops' = Append(ops, Op("create", "fs", newFile.id, name, files, newFile, <<>>))

\* useMarkdownFilesNative: updateFileContent(fileId, content) up to
\* FileSystemUtils.saveFile
NativeUpdateFileContent ==
    \E id \in Ids(files), newContent \in NewContents :
        /\ Calls("native", "update", id, newContent)
        /\ ops' = Append(ops, Op("update", "fs", id, newContent, files, Find(files, id), <<>>))

\* useMarkdownFilesNative: deleteFile(fileId) up to FileSystemUtils.deleteFile
NativeDeleteFile ==
    \E id \in Ids(files) :
        /\ Calls("native", "delete", id, "")
        /\ ops' = Append(ops, Op("delete", "fs", id, "", files, <<>>, <<>>))

\* useMarkdownFilesNative: the await of the file system returns: updatedFiles
\* is made from the files of the closure and goes to saveMetadata
NativeFileSaved ==
    \E k \in 1..Len(ops) :
        /\ Resumes({"native"}, k, "fs")
        /\ LET o == ops[k]
               updatedFile == [o.file EXCEPT !.content = o.arg, !.updatedAt = now]
               updatedFiles ==
                   CASE o.op = "create" -> <<o.file>> \o o.snapshot
                     [] o.op = "update" -> SortNewestFirst(Replace(o.snapshot, updatedFile))
                     [] OTHER -> Without(o.snapshot, o.id)
           IN  ops' = [ops EXCEPT ![k] = [o EXCEPT !.phase = "setItem", !.list = updatedFiles]]
        /\ UNCHANGED <<stored, files>>

\* useMarkdownFilesNative: renameFile(fileId, newName) up to saveMetadata
NativeRenameFile ==
    \E id \in Ids(files), name \in NewNames :
        LET renamedFile == [Find(files, id) EXCEPT !.name = name, !.updatedAt = now]
        IN  /\ Calls("native", "rename", id, name)
            /\ ops' = Append(ops, Op("rename", "setItem", id, name, files, renamedFile,
                                     SortNewestFirst(Replace(files, renamedFile))))

\* useMarkdownFiles: createFile(name), saveFile up to AsyncStorage.setItem
UniversalCreateFile ==
    \E name \in NewNames :
        LET newFile == [id |-> 100 + now, name |-> name, content |-> "", updatedAt |-> now]
        IN  /\ Calls("universal", "create", newFile.id, name)
            /\ ops' = Append(ops, Op("create", "setItem", newFile.id, name, files, newFile,
                                     SaveFileList(files, newFile)))

\* useMarkdownFiles: updateFileContent(id, content), saveFile up to
\* AsyncStorage.setItem
UniversalUpdateFileContent ==
    \E id \in Ids(files), newContent \in NewContents :
        LET file == [Find(files, id) EXCEPT !.content = newContent, !.updatedAt = now]
        IN  /\ Calls("universal", "update", id, newContent)
            /\ ops' = Append(ops, Op("update", "setItem", id, newContent, files, file,
                                     SaveFileList(files, file)))

\* useMarkdownFiles: renameFile(id, newName), saveFile up to
\* AsyncStorage.setItem
UniversalRenameFile ==
    \E id \in Ids(files), name \in NewNames :
        LET file == [Find(files, id) EXCEPT !.name = name, !.updatedAt = now]
        IN  /\ Calls("universal", "rename", id, name)
            /\ ops' = Append(ops, Op("rename", "setItem", id, name, files, file,
                                     SaveFileList(files, file)))

\* useMarkdownFiles: deleteFile(id) up to AsyncStorage.setItem
UniversalDeleteFile ==
    \E id \in Ids(files) :
        /\ Calls("universal", "delete", id, "")
        /\ ops' = Append(ops, Op("delete", "setItem", id, "", files, <<>>, Without(files, id)))

NextFiles ==
    \/ Tick
    \/ WebLoaded
    \/ WebCreateFile
    \/ WebAdded
    \/ WebUpdateFileContent
    \/ WebRenameFile
    \/ WebGot
    \/ WebPut
    \/ WebDeleteFile
    \/ WebDeleted
    \/ MetadataLoaded
    \/ MetadataSaved
    \/ NativeCreateFile
    \/ NativeUpdateFileContent
    \/ NativeDeleteFile
    \/ NativeFileSaved
    \/ NativeRenameFile
    \/ UniversalCreateFile
    \/ UniversalUpdateFileContent
    \/ UniversalRenameFile
    \/ UniversalDeleteFile

SpecFiles == InitFiles /\ [][NextFiles]_vars

\* the list is ordered by updatedAt, newest first
NewestFirst(fs) == \A k \in 1..(Len(fs) - 1) : fs[k].updatedAt >= fs[k + 1].updatedAt

\* C24: the files list the hook exposes is ordered by updatedAt, newest
\* first, in every state the hook goes through, and so after any sequence of
\* load, createFile, updateFileContent, renameFile and deleteFile operations
\* that have completed, on each of the three hooks.
C24_FilesNewestFirst == NewestFirst(files)

\* on the IndexedDB hook a file was created and an older file was updated
\* after it; all operations have completed, and the updated file leads the list
C24_Witness ==
    /\ backend = "web"
    /\ ops = <<>>
    /\ Len(files) = 3
    /\ Len(called) = 2
    /\ called[1].op = "create"
    /\ called[2].op = "update"
    /\ files[1].id = called[2].id
    /\ files[1].updatedAt > files[2].updatedAt
    /\ files[2].id = called[1].id


\* the calls of the given operation made so far, by position
CallsOf(op) == {k \in 1..Len(called) : called[k].op = op}

\* the list shows what the operations called so far did: a created file is in
\* it and a deleted one is not (unless deleted, or created again, later), and
\* a file that was given a content or a name has one it was given
Reflects(fs) ==
    /\ \A k \in CallsOf("create") :
          (\A d \in CallsOf("delete") : called[d].id # called[k].id) => called[k].id \in Ids(fs)
    /\ \A k \in CallsOf("delete") :
          (\A c \in CallsOf("create") : called[c].id = called[k].id => c < k)
              => called[k].id \notin Ids(fs)
    /\ \A k \in CallsOf("update") :
          called[k].id \in Ids(fs)
              => Find(fs, called[k].id).content \in {called[j].arg : j \in CallsOf("update")}
    /\ \A k \in CallsOf("rename") :
          called[k].id \in Ids(fs)
              => Find(fs, called[k].id).name \in {called[j].arg : j \in CallsOf("rename")}

\* C29: on the two hooks that keep their list in AsyncStorage, once the
\* operations called after the initial load have all completed, the files
\* list and the stored list reflect every one of them, also when one was
\* started before an earlier one had completed.
C29_NoLostUpdate ==
    (/\ backend \in {"native", "universal"}
     /\ ops = <<>>
     /\ \A k \in 1..Len(called) : \A j \in 1..Len(called[k].during) : called[k].during[j] # "load")
        => Reflects(files) /\ Reflects(stored)


----------------------------------------------------------------------------
(* The editor screen (src/app/editor.tsx) over a file-management hook: the   *)
(* load effect (deps fileId, getFile) and the autosave effect (deps content, *)
(* file, updateFileContent). getFile of every hook has the deps [files], so  *)
(* it is a new function whenever the hook sets a new files array. A step is  *)
(* an event (the list is loaded, the user types, the timer fires, a write    *)
(* completes) together with the renders and effects it causes. A file        *)
(* object is a record of its content and a version that tells objects apart  *)
(* as Object.is does.                                                        *)

\* most autosave writes of a session
MaxWrites == 3

\* the contents the opened file can have, and the texts the user can type
SavedContents == {"", "a"}
TypedTexts == {"a", "ab", "abc"}

InitEditor ==
    /\ OutsideEditorInit
    /\ hookFile = <<>>
    /\ edFile = <<>>
    /\ edContent = ""
    /\ typed = "none"
    /\ timer = "none"
    /\ saving = <<>>
    /\ writes = 0

\* the load effect with the file object the hook holds: setFile(loadedFile),
\* setContent(loadedFile.content); file has changed, so the autosave effect
\* runs in the render that follows: its cleanup clears the timer, and a new
\* timer holds the content of that render
LoadEffect(loadedFile) ==
    /\ edFile' = loadedFile
    /\ edContent' = loadedFile.content
    /\ timer' = loadedFile.content

\* the hook has loaded its list: getFile changes and finds the file
FilesLoaded ==
    /\ hookFile = <<>>
    /\ \E c \in SavedContents : hookFile' = [content |-> c, version |-> 0]
    /\ LoadEffect(hookFile')
    /\ UNCHANGED <<typed, saving, writes, outsideEditor>>

\* onChangeText={setContent} of the input, which is rendered once file is
\* set: with a new content the autosave effect clears the timer and sets a
\* new one
Type ==
    /\ edFile # <<>>
    /\ \E text \in TypedTexts :
          /\ edContent' = text
          /\ typed' = text
          /\ timer' = IF text # edContent THEN text ELSE timer
    /\ UNCHANGED <<hookFile, edFile, saving, writes, outsideEditor>>

\* the timer fires after 1000 ms: updateFileContent(file.id, content) is
\* called with the content the timer holds
TimerFires ==
    /\ timer # "none"
    /\ writes < MaxWrites
    /\ saving' = Append(saving, timer)
    /\ writes' = writes + 1
    /\ timer' = "none"
    /\ UNCHANGED <<hookFile, edFile, edContent, typed, outsideEditor>>

\* the oldest updateFileContent in flight completes: the hook sets a files
\* array with a new file object, getFile changes, and the load effect runs
WriteCompletes ==
    /\ saving # <<>>
    /\ hookFile' = [content |-> Head(saving), version |-> hookFile.version + 1]
    /\ saving' = Tail(saving)
    /\ LoadEffect(hookFile')
    /\ UNCHANGED <<typed, writes, outsideEditor>>

NextEditor ==
    \/ FilesLoaded
    \/ Type
    \/ TimerFires
    \/ WriteCompletes

SpecEditor == InitEditor /\ [][NextEditor]_vars

\* the step with which an updateFileContent call of the editor completes
WriteCompleted == Len(saving') < Len(saving)

\* C25: an autosave write is issued only in response to a change of the
\* editor content; in particular the completion of a write schedules no
\* write: the step a write completes with leaves the pending timer as it was
\* (none, or the one set by what the user typed meanwhile).
C25_CompletionSchedulesNoWrite == [][WriteCompleted => timer' = timer]_vars

\* C28: text typed into the editor is never discarded: once the user has
\* typed, the editor content is what the user typed last, also after an
\* autosave that was in flight while the user typed has completed.
C28_TypedTextKept == typed # "none" => edContent = typed

====
